---- MODULE Spec2Model ----
(***************************************************************************)
(* A model of the Puppetfile dependency resolver: the requirements store,  *)
(* the dependency graph, the forge cache, the version search of a          *)
(* requirement and the resolve() loop of DependencyResolver, with the      *)
(* module declarations as heap objects (they are shared by reference       *)
(* between the store, the graph nodes and the graph edges).                *)
(***************************************************************************)
EXTENDS Integers, Sequences, FiniteSets, TLC

\* ------------------------------------------------------------- bounds
\* Releases of a module are numbered 1..MaxVersion, a higher number being a
\* newer semantic version.
MaxVersion == 3
\* No run of the modelled inputs needs more loop iterations than this (see
\* LoopNeverCapped); the cap only keeps the state space finite.
MaxSteps == 16

\* ------------------------------------------------------------- values
Versions == 1..MaxVersion
\* ModuleDeclaration.version left undefined
NoVersion == 0
\* an absent object reference (sourceModule of a Puppetfile requirement,
\* the module attribute of the puppetfile node)
Nil == 0

A == "test-a"
B == "test-b"
C == "test-c"
D == "test-d"
Slugs == {A, B, C, D}
\* the key of the graph node that stands for the Puppetfile
PuppetfileNode == "puppetfile"

\* RequirementSource
Puppetfile == "Puppetfile"
Dependency == "Dependency"

\* A semver Range is modelled by the set of versions that satisfy it.
AnyRange == Versions
\* new Range('=' + version): an undefined version gives '=', that is any
EqRange(version) == IF version = NoVersion THEN AnyRange ELSE {version}
AtMost(k) == 1..k
satisfies(version, range) == version \in range

\* ------------------------------------------------------------- helpers
SeqToSet(seq) == {seq[i] : i \in 1..Len(seq)}

\* The releases of a fully published module, newest first
Descending == [i \in 1..MaxVersion |-> MaxVersion + 1 - i]


\* ------------------------------------------------------------- the forge
\* One dependency of a release as the registry reports it
\* (ForgeDependency: name, version_requirement).
Dep(name, range) == [name |-> name, version_requirement |-> range]
OptDep(name, range) == IF range = {} THEN <<>> ELSE <<Dep(name, range)>>

\* Ranges a release declares in the modelled registries: any version, at most
\* version k, exactly the newest version.
RangeChoices == {AnyRange} \cup {AtMost(k) : k \in 1..(MaxVersion - 1)} \cup {{MaxVersion}}

\* The registries: test-a needs test-b and test-c, test-b needs test-a (a
\* dependency cycle) and test-c, test-c may need test-d in its newest or in
\* every release; the empty set stands for "no such dependency". test-c is
\* fully published, published in its newest release only, or has no release.
\* The metadata of test-b lists test-a before test-c (order "ac") or, in the
\* registries where all four dependencies exist, test-c before test-a ("ca").
ShapesOfC == {<<"none", "full">>, <<"top", "full">>, <<"none", "newest">>, <<"none", "empty">>}
Registries ==
  { [ab |-> ab, ba |-> ba, ac |-> ac, bc |-> bc, cd |-> sh[1], rel |-> sh[2], deprecated |-> dp,
     order |-> "ac", listing |-> "descending"] :
      ab \in {{}, AnyRange}, ba \in {{}, AtMost(1)},
      ac \in {{}} \cup RangeChoices, bc \in {{}} \cup RangeChoices,
      sh \in ShapesOfC, dp \in {{}, {C}} }
  \cup
  { [ab |-> AnyRange, ba |-> AtMost(1), ac |-> ac, bc |-> bc, cd |-> sh[1], rel |-> sh[2],
     deprecated |-> {}, order |-> "ca", listing |-> "descending"] :
      ac \in RangeChoices, bc \in RangeChoices, sh \in ShapesOfC }

\* the releases a module has on the forge, newest first
Published(reg, slug) ==
  IF slug = C
  THEN CASE reg.rel = "full" -> Descending
         [] reg.rel = "newest" -> <<MaxVersion>>
         [] OTHER -> <<>>
  ELSE Descending

\* GET /v3/modules/<slug>: releases[*].version, in the order the registry lists
\* them: newest first or oldest first.
ForgeReleases(reg, slug) ==
  LET list == Published(reg, slug)
  IN IF reg.listing = "ascending"
     THEN [i \in 1..Len(list) |-> list[Len(list) + 1 - i]]
     ELSE list

\* GET /v3/releases/<slug>-<version>: metadata.dependencies
ForgeDependencies(reg, slug, version) ==
  CASE slug = A -> OptDep(B, reg.ab) \o OptDep(C, reg.ac)
    [] slug = B -> IF reg.order = "ca" THEN OptDep(C, reg.bc) \o OptDep(A, reg.ba)
                   ELSE OptDep(A, reg.ba) \o OptDep(C, reg.bc)
    [] slug = C -> IF reg.cd = "all" \/ (reg.cd = "top" /\ version = MaxVersion)
                   THEN <<Dep(D, AnyRange)>> ELSE <<>>
    [] OTHER -> <<>>

\* GET /v3/releases/<slug>-<version> answers for the releases the module has;
\* for any other it fails (so it does for a module without version, which is
\* asked for as <slug>-undefined).
ForgeHasRelease(reg, slug, version) == version \in SeqToSet(ForgeReleases(reg, slug))

\* GET /v3/modules/<slug>: deprecated_at is set
ForgeDeprecated(reg, slug) == slug \in reg.deprecated

\* metadata.json of the git repository of a repository module
GitMetadata(slug) == [version |-> 1, dependencies |-> <<Dep(D, AnyRange)>>]

\* ------------------------------------------------------------- Puppetfiles
\* A mod entry of the Puppetfile: slug, literal version (NoVersion when the
\* entry has none) and whether it is a :git entry.
Mod(slug, version, git) == [slug |-> slug, version |-> version, git |-> git]
Puppetfiles ==
  { <<Mod(A, 1, FALSE)>>,
    <<Mod(A, MaxVersion, FALSE), Mod(B, MaxVersion, FALSE)>>,
    <<Mod(A, 1, FALSE), Mod(B, MaxVersion, FALSE)>>,
    <<Mod(C, MaxVersion, FALSE), Mod(B, MaxVersion, FALSE)>>,
    <<Mod(C, 1, FALSE), Mod(B, MaxVersion, FALSE)>>,
    <<Mod(C, MaxVersion - 1, FALSE), Mod(A, MaxVersion, FALSE)>>,
    <<Mod(A, NoVersion, FALSE), Mod(C, NoVersion, FALSE)>>,
    <<Mod(A, MaxVersion, FALSE), Mod(C, MaxVersion, FALSE)>>,
    <<Mod(C, NoVersion, TRUE), Mod(A, MaxVersion, FALSE)>> }


\* ------------------------------------------------------------- state
VARIABLES
  forge,             \* the registry the forge API serves (fixed during a run)
  sourcePuppetfile,  \* DependencyResolver._sourcePuppetfile.modules: object references
  sourceDependents,  \* DependencyResolver._sourcePuppetfile.dependentModules: object references
  manifest,          \* the top-level mod entries of the Puppetfile text the process was given
  ignoreList,        \* DependencyResolver._ignoreList
  hideList,          \* DependencyResolver._hideList
  heap,              \* the ModuleDeclaration objects: reference -> [slug, version, forgeModule]
  store,             \* RequirementsStore._requirements
  nodes,             \* graph nodes in insertion order: [key, module]
  edges,             \* graph edges in insertion order, with their attributes
  releases,          \* ForgeCache._releases: slug -> remaining releases
  forgeModuleData,   \* ForgeCache._forgeModuleData: the slugs fetched
  dependencies,      \* ForgeCache._dependencies: the <<slug, version>> keys fetched
  pc,                \* "resolving", "done" (resolve() returned) or "failed" (it threw)
  error,             \* the error resolve() threw
  modules,           \* resultPuppetfile.modules
  dependentModules,  \* resultPuppetfile.dependentModules
  steps,             \* loop iterations so far
  lastStep,          \* how the last loop iteration ended
  twin,              \* the same resolver with an empty hide list and a Puppetfile
                     \* without dependencies section, run in lock step
  remaining,         \* PuppetFile.fromText: the lines of the text not read yet
  sourceText,        \* the text fromText was called with
  parser,            \* the local variables of fromText
  puppetFile,        \* the PuppetFile that reads and writes: its fields
  emitted,           \* the texts toText has returned so far
  phase,             \* "parsing", "parsed", "emitted", "failed" (fromText threw), "idle"
  gitFetch,          \* a call of ModuleDeclaration.fetchGitMetadata: the module, the
                     \* repository, the position in the function, the temporary directories
  lookups,           \* callers of the ForgeCache for one slug, the cache entry and the
                     \* arrays it has handed out
  storeCall,         \* the last call made on a RequirementsStore that is used on its own
  forgeCall          \* the last call made on a ForgeCache that is used on its own: the
                     \* method, its key, the requests it sent, what it returned and the
                     \* calls that had returned before it

config == <<forge, sourcePuppetfile, sourceDependents, manifest, ignoreList, hideList>>
resolverVars == <<forge, sourcePuppetfile, sourceDependents, manifest, ignoreList, hideList, heap, store,
                  nodes, edges, releases, forgeModuleData, dependencies, pc, error, modules,
                  dependentModules, steps, lastStep, twin>>
textVars == <<remaining, sourceText, parser, puppetFile, emitted, phase>>
unitVars == <<gitFetch, lookups, storeCall, forgeCall>>
vars == <<resolverVars, textVars, unitVars>>

\* The mutable state as one record, the form the operations below work on.
Cur ==
  [heap |-> heap, store |-> store, nodes |-> nodes, edges |-> edges,
   releases |-> releases, forgeModuleData |-> forgeModuleData,
   dependencies |-> dependencies, pc |-> pc, error |-> error, modules |-> modules,
   dependentModules |-> dependentModules, steps |-> steps, lastStep |-> lastStep,
   hideList |-> hideList]

Becomes(n) ==
  /\ heap' = n.heap
  /\ store' = n.store
  /\ nodes' = n.nodes
  /\ edges' = n.edges
  /\ releases' = n.releases
  /\ forgeModuleData' = n.forgeModuleData
  /\ dependencies' = n.dependencies
  /\ pc' = n.pc
  /\ error' = n.error
  /\ modules' = n.modules
  /\ dependentModules' = n.dependentModules
  /\ steps' = n.steps
  /\ lastStep' = n.lastStep

\* ------------------------------------------------------------- errors
NoError == [kind |-> "none", slug |-> "", source |-> "", target |-> "", range |-> {}]
\* isValid(): throw `Requirement has no source module`
StateInvariantError == [NoError EXCEPT !.kind = "StateInvariant"]
\* axios: request failed
ForgeUnavailableError(slug) == [NoError EXCEPT !.kind = "ForgeUnavailable", !.slug = slug]
DeprecatedModuleError(slug) == [NoError EXCEPT !.kind = "ModuleDeprecated", !.slug = slug]
NoVersionFoundError(s, requirement) ==
  [kind |-> "NoVersionFound", slug |-> "",
   source |-> IF requirement.sourceModule = Nil THEN "undefined"
              ELSE s.heap[requirement.sourceModule].slug,
   target |-> s.heap[requirement.targetModule].slug,
   range |-> requirement.dependencyRange]

Fail(s, err) == [s EXCEPT !.pc = "failed", !.error = err, !.lastStep = "failed"]

\* ------------------------------------------------------------- ForgeCache
getModuleData(s, slug) == [s EXCEPT !.forgeModuleData = @ \cup {slug}]

\* A faulty variant of ForgeCache.getReleases: an empty cached list is fetched
\* again.
getReleasesRefilled(s, slug) ==
  IF slug \in DOMAIN s.releases /\ s.releases[slug] # <<>> THEN s
  ELSE [getModuleData(s, slug) EXCEPT !.releases = (slug :> ForgeReleases(forge, slug)) @@ @]

\* The cache after getReleases(slug); the list it returns is CachedReleases.
getReleases(s, slug) ==
  IF slug \in DOMAIN s.releases THEN s
  ELSE [getModuleData(s, slug) EXCEPT !.releases = (slug :> ForgeReleases(forge, slug)) @@ @]

CachedReleases(s, slug) == getReleases(s, slug).releases[slug]

updateAvailableReleases(s, slug, list) == [s EXCEPT !.releases = (slug :> list) @@ @]

\* ------------------------------------------------------------- ModuleDeclaration
getSlug(s, module) == s.heap[module].slug

getDeprecationStatus(s, module) ==
  s.heap[module].forgeModule /\ ForgeDeprecated(forge, getSlug(s, module))

\* versions.shift() and updateAvailableReleases: the head leaves the cached list
getNextAvailableVersion(s, module) ==
  LET slug == getSlug(s, module)
  IN updateAvailableReleases(getReleases(s, slug), slug, Tail(CachedReleases(s, slug)))

\* A faulty variant of addAvailableVersion: the version is put at the end of
\* the list (push instead of unshift).
addAvailableVersionAtEnd(s, module, version) ==
  LET slug == getSlug(s, module)
  IN updateAvailableReleases(getReleases(s, slug), slug, Append(CachedReleases(s, slug), version))

\* versions.unshift(version) and updateAvailableReleases
addAvailableVersion(s, module, version) ==
  LET slug == getSlug(s, module)
  IN updateAvailableReleases(getReleases(s, slug), slug, <<version>> \o CachedReleases(s, slug))

\* A faulty variant of fromText: an entry without a literal version is left
\* without one.
fromTextUnversioned(s, slug) ==
  [getReleases(s, slug) EXCEPT !.heap =
     Append(@, [slug |-> slug, version |-> NoVersion, forgeModule |-> TRUE])]

\* the highest version of a list, none for an empty list
Highest(list) ==
  IF list = <<>> THEN NoVersion
  ELSE CHOOSE version \in SeqToSet(list) : \A other \in SeqToSet(list) : other <= version

\* A faulty variant of fromText: an entry without a literal version gets the
\* highest version of the cached list, wherever it stands in the list.
fromTextHighest(s, slug) ==
  [getReleases(s, slug) EXCEPT !.heap =
     Append(@, [slug |-> slug, version |-> Highest(CachedReleases(s, slug)),
                forgeModule |-> TRUE])]

\* new ModuleDeclaration().withForgeApiUrl(..).fromText(`mod '<slug>'`): a forge
\* module whose version is the head of the cached releases, undefined if none.
\* The new object's reference is Len(s.heap) + 1.
fromText(s, slug) ==
  LET list == CachedReleases(s, slug)
  IN [getReleases(s, slug) EXCEPT !.heap =
        Append(@, [slug |-> slug,
                   version |-> IF list = <<>> THEN NoVersion ELSE Head(list),
                   forgeModule |-> TRUE])]

\* ------------------------------------------------------------- DependencyGraph
hasNode(s, key) == \E i \in 1..Len(s.nodes) : s.nodes[i].key = key
hasEdge(s, sourceKey, targetKey) ==
  \E i \in 1..Len(s.edges) : s.edges[i].sourceKey = sourceKey /\ s.edges[i].targetKey = targetKey
getNodeAttribute(s, key) == s.nodes[CHOOSE i \in 1..Len(s.nodes) : s.nodes[i].key = key].module
inEdges(s, key) == SelectSeq(s.edges, LAMBDA e : e.targetKey = key)
outEdges(s, key) == SelectSeq(s.edges, LAMBDA e : e.sourceKey = key)
dropNode(s, key) ==
  [s EXCEPT !.nodes = SelectSeq(@, LAMBDA n : n.key # key),
            !.edges = SelectSeq(@, LAMBDA e : e.sourceKey # key /\ e.targetKey # key)]

\* A faulty variant of isValid: only the edges that come from the Puppetfile
\* are tested.
isValidPuppetfileOnly(s, module) ==
  \A i \in 1..Len(s.edges) :
    (s.edges[i].targetKey = getSlug(s, module) /\ s.edges[i].source = Puppetfile) =>
      \/ s.heap[module].version = NoVersion
      \/ satisfies(s.heap[module].version, s.edges[i].dependencyRange)

\* A faulty variant of isValid: a module without version is tested like any
\* other, so an in-edge refuses it.
isValidVersionedOnly(s, module) ==
  \A i \in 1..Len(s.edges) :
    s.edges[i].targetKey = getSlug(s, module) =>
      satisfies(s.heap[module].version, s.edges[i].dependencyRange)

\* DependencyGraph.isValid(module): every in-edge of the node of the module's
\* slug accepts the version of the module passed in; no version is always valid.
isValid(s, module) ==
  \A i \in 1..Len(s.edges) :
    s.edges[i].targetKey = getSlug(s, module) =>
      \/ s.heap[module].version = NoVersion
      \/ satisfies(s.heap[module].version, s.edges[i].dependencyRange)


\* ------------------------------------------------------------- Requirement
Requirement(source, sourceModule, targetModule, range) ==
  [source |-> source, sourceModule |-> sourceModule,
   targetModule |-> targetModule, dependencyRange |-> range]

\* Requirement.isValid(): FALSE stands for the throw; a target module and a
\* range are set on every requirement that is built.
RequirementIsValid(requirement) ==
  ~(requirement.source = Dependency /\ requirement.sourceModule = Nil)

\* the key of the source node: sourceModule?.getSlug() ?? 'puppetfile'
SourceKey(s, requirement) ==
  IF requirement.sourceModule = Nil THEN PuppetfileNode
  ELSE getSlug(s, requirement.sourceModule)

\* A faulty variant of the loop of getNewVersion: the release chosen is not
\* put back into the cached list.
RECURSIVE TryVersionsDropsChosen(_, _)
TryVersionsDropsChosen(s, module) ==
  IF CachedReleases(s, getSlug(s, module)) = <<>>
  THEN [found |-> FALSE, s |-> getReleases(s, getSlug(s, module))]
  ELSE LET version == Head(CachedReleases(s, getSlug(s, module)))
           tried == [getNextAvailableVersion(s, module) EXCEPT !.heap[module].version = version]
       IN IF isValid(tried, module)
          THEN [found |-> TRUE, s |-> tried]
          ELSE TryVersionsDropsChosen(tried, module)

\* The loop of getNewVersion: take releases from the head of the cached list
\* until one is valid (it is put back at the head) or the list is empty.
RECURSIVE TryVersions(_, _)
TryVersions(s, module) ==
  IF CachedReleases(s, getSlug(s, module)) = <<>>
  THEN [found |-> FALSE, s |-> getReleases(s, getSlug(s, module))]
  ELSE LET version == Head(CachedReleases(s, getSlug(s, module)))
           tried == [getNextAvailableVersion(s, module) EXCEPT !.heap[module].version = version]
       IN IF isValid(tried, module)
          THEN [found |-> TRUE, s |-> addAvailableVersion(tried, module, version)]
          ELSE TryVersions(tried, module)

\* A faulty variant of getNewVersion: when the search runs out of releases the
\* last release tried is returned instead of NoVersionFoundError being thrown.
getNewVersionKeepsLast(s, requirement) ==
  IF isValid(s, requirement.targetModule)
  THEN [found |-> TRUE, s |-> s]
  ELSE [found |-> TRUE, s |-> TryVersions(s, requirement.targetModule).s]

\* A faulty variant of getNewVersion: the releases are searched even when the
\* graph validates the current version of the target.
getNewVersionAlwaysSearches(s, requirement) == TryVersions(s, requirement.targetModule)

\* Requirement.getNewVersion(): found = FALSE stands for NoVersionFoundError;
\* the version returned is that of the target module in the state returned.
getNewVersion(s, requirement) ==
  IF isValid(s, requirement.targetModule)
  THEN [found |-> TRUE, s |-> s]
  ELSE TryVersions(s, requirement.targetModule)

\* ------------------------------------------------------------- RequirementsStore
\* A faulty variant of addRequirement: a requirement on a hidden module is not
\* queued, so that hidden modules are never resolved.
addRequirementUnlessHidden(s, requirement) ==
  IF getSlug(s, requirement.targetModule) \in s.hideList THEN s
  ELSE [s EXCEPT !.store = Append(@, requirement)]

\* A faulty variant of addRequirement: the requirement is put at the front of
\* the queue (unshift instead of push).
addRequirementAtFront(s, requirement) == [s EXCEPT !.store = <<requirement>> \o @]

addRequirement(s, requirement) == [s EXCEPT !.store = Append(@, requirement)]

\* A faulty variant of updateTargetVersion: the slug is not compared, the target
\* of every queued requirement gets the version.
updateTargetVersionOfAll(s, slug, version) ==
  [s EXCEPT !.heap =
     [m \in DOMAIN @ |->
        IF \E i \in 1..Len(s.store) : s.store[i].targetModule = m
        THEN [@[m] EXCEPT !.version = version]
        ELSE @[m]]]

\* RequirementsStore.updateTargetVersion: the requirements hold references, so
\* the version is written into the module objects they point to.
updateTargetVersion(s, slug, version) ==
  [s EXCEPT !.heap =
     [m \in DOMAIN @ |->
        IF \E i \in 1..Len(s.store) :
             s.store[i].targetModule = m /\ getSlug(s, m) = slug
        THEN [@[m] EXCEPT !.version = version]
        ELSE @[m]]]

deleteSourceRequirements(s, sourceSlug) ==
  [s EXCEPT !.store =
     SelectSeq(@, LAMBDA value :
       value.sourceModule # Nil /\ getSlug(s, value.sourceModule) # sourceSlug)]

\* ------------------------------------------------------------- dependencies
\* ModuleDeclaration._getVersion
getVersion(s, module) ==
  IF s.heap[module].version # NoVersion THEN s.heap[module].version
  ELSE IF CachedReleases(s, getSlug(s, module)) = <<>> THEN NoVersion
       ELSE Head(CachedReleases(s, getSlug(s, module)))

\* ModuleDeclaration._buildDependencies: one new target module per raw
\* dependency, in order; deps holds <<target reference, range>> pairs.
RECURSIVE buildDependencies(_, _)
buildDependencies(s, rawDependencies) ==
  IF rawDependencies = <<>> THEN [s |-> s, deps |-> <<>>]
  ELSE LET made == fromText(s, Head(rawDependencies).name)
           rest == buildDependencies(made, Tail(rawDependencies))
       IN [s |-> rest.s,
           deps |-> <<[targetModule |-> Len(made.heap),
                       dependencyRange |-> Head(rawDependencies).version_requirement]>>
                    \o rest.deps]

\* ModuleDeclaration.getDependencies(): ok = FALSE when the forge request for
\* the release fails.
getDependencies(s, module) ==
  IF s.heap[module].forgeModule
  THEN LET version == getVersion(s, module)
           slug == getSlug(s, module)
           asked == [getReleases(s, slug) EXCEPT !.dependencies = @ \cup {<<slug, version>>}]
       IN IF ~ForgeHasRelease(forge, slug, version)
          THEN [ok |-> FALSE, s |-> getReleases(s, slug), deps |-> <<>>]
          ELSE LET built == buildDependencies(asked, ForgeDependencies(forge, slug, version))
               IN [ok |-> TRUE, s |-> built.s, deps |-> built.deps]
  ELSE LET built == buildDependencies(s, GitMetadata(getSlug(s, module)).dependencies)
       IN [ok |-> TRUE, s |-> built.s, deps |-> built.deps]

\* ------------------------------------------------------------- DependencyResolver
addNode(s, key, module) == [s EXCEPT !.nodes = Append(@, [key |-> key, module |-> module])]

\* A faulty variant of _addToGraph: the edge is added without asking hasEdge.
addToGraphAlways(s, requirement) ==
  LET target == getSlug(s, requirement.targetModule)
      sourceKey == SourceKey(s, requirement)
      withSource == IF hasNode(s, sourceKey) THEN s
                    ELSE addNode(s, sourceKey, requirement.sourceModule)
      withTarget == IF hasNode(withSource, target) THEN withSource
                    ELSE addNode(withSource, target, requirement.targetModule)
  IN [withTarget EXCEPT !.edges =
        Append(@, [sourceKey |-> sourceKey, targetKey |-> target,
                   source |-> requirement.source,
                   sourceModule |-> requirement.sourceModule,
                   targetModule |-> requirement.targetModule,
                   dependencyRange |-> requirement.dependencyRange])]

\* DependencyResolver._addToGraph
addToGraph(s, requirement) ==
  LET target == getSlug(s, requirement.targetModule)
      withSource ==
        IF requirement.source = Dependency /\ ~hasNode(s, getSlug(s, requirement.sourceModule))
        THEN addNode(s, getSlug(s, requirement.sourceModule), requirement.sourceModule)
        ELSE IF requirement.source = Puppetfile /\ ~hasNode(s, PuppetfileNode)
             THEN addNode(s, PuppetfileNode, Nil)
             ELSE s
      withTarget ==
        IF ~hasNode(withSource, target)
        THEN addNode(withSource, target, requirement.targetModule)
        ELSE withSource
      sourceKey == SourceKey(s, requirement)
  IN IF ~hasEdge(withTarget, sourceKey, target)
     THEN [withTarget EXCEPT !.edges =
             Append(@, [sourceKey |-> sourceKey, targetKey |-> target,
                        source |-> requirement.source,
                        sourceModule |-> requirement.sourceModule,
                        targetModule |-> requirement.targetModule,
                        dependencyRange |-> requirement.dependencyRange])]
     ELSE withTarget

\* A faulty variant of throwsDeprecated: the ignore list is not consulted.
throwsDeprecatedIgnoringList(s, module) == getDeprecationStatus(s, module)

\* DependencyResolver._checkDeprecationStatus: TRUE stands for the throw
throwsDeprecated(s, module) ==
  getDeprecationStatus(s, module) /\ getSlug(s, module) \notin ignoreList

\* the forge request the deprecation check makes for a forge module
checkDeprecationStatus(s, module) ==
  IF s.heap[module].forgeModule THEN getModuleData(s, getSlug(s, module)) ELSE s

\* _checkVersion, newVersion === oldVersion: the dependencies of the target are
\* queued, except those whose slug is a node and whose new target object the
\* graph accepts.
RECURSIVE addDependencies(_, _, _)
addDependencies(s, targetModule, deps) ==
  IF deps = <<>> THEN s
  ELSE LET dependency == Head(deps)
           next ==
             IF hasNode(s, getSlug(s, dependency.targetModule))
                /\ isValid(s, dependency.targetModule)
             THEN s
             ELSE addRequirement(s, Requirement(Dependency, targetModule,
                                                dependency.targetModule,
                                                dependency.dependencyRange))
       IN addDependencies(next, targetModule, Tail(deps))

\* A faulty variant of dropSoleDependencies: every out-neighbour is dropped,
\* whether another source depends on it or not.
RECURSIVE dropAllDependencies(_, _, _)
dropAllDependencies(s, source, targets) ==
  IF targets = <<>> THEN s
  ELSE dropAllDependencies(IF hasNode(s, Head(targets)) THEN dropNode(s, Head(targets)) ELSE s,
                           source, Tail(targets))

\* _checkVersion, version changed: forEachOutEdge drops every out-neighbour
\* that has no in-edge from another source, one edge after the other.
RECURSIVE dropSoleDependencies(_, _, _)
dropSoleDependencies(s, source, targets) ==
  IF targets = <<>> THEN s
  ELSE LET target == Head(targets)
           others == \E i \in 1..Len(s.edges) :
                        s.edges[i].targetKey = target /\ s.edges[i].sourceKey # source
       IN dropSoleDependencies(IF hasNode(s, target) /\ ~others THEN dropNode(s, target) ELSE s,
                               source, Tail(targets))

\* _checkVersion, version changed: one requirement per in-edge of the target,
\* always with source Dependency and the source module of the edge.
RECURSIVE readdRequirements(_, _, _)
readdRequirements(s, targetModule, inEdgeList) ==
  IF inEdgeList = <<>> THEN s
  ELSE readdRequirements(
         addRequirement(s, Requirement(Dependency, Head(inEdgeList).sourceModule,
                                       targetModule, Head(inEdgeList).dependencyRange)),
         targetModule, Tail(inEdgeList))

\* DependencyResolver._checkVersion
checkVersion(s, targetModule, oldVersion, newVersion) ==
  LET slug == getSlug(s, targetModule)
  IN IF newVersion = oldVersion
     THEN LET got == getDependencies(s, targetModule)
          IN IF got.ok
             THEN [addDependencies(got.s, targetModule, got.deps) EXCEPT !.lastStep = "same"]
             ELSE Fail(got.s, ForgeUnavailableError(slug))
     ELSE LET updated == updateTargetVersion(
                           [s EXCEPT !.heap[targetModule].version = newVersion], slug, newVersion)
              outTargets == [i \in 1..Len(outEdges(updated, slug)) |->
                               outEdges(updated, slug)[i].targetKey]
              cleaned == dropSoleDependencies(updated, slug, outTargets)
              deleted == deleteSourceRequirements(cleaned, slug)
              readded == readdRequirements(deleted, targetModule, inEdges(deleted, slug))
          IN [dropNode(readded, slug) EXCEPT !.lastStep = "changed"]

\* A faulty variant of throwDeprecated: the deprecation checks run after
\* _addToGraph, so the failure leaves the requirement in the graph.
throwDeprecatedAfterInsertion(s, requirement, module) ==
  Fail(addToGraph(s, requirement), DeprecatedModuleError(getSlug(s, module)))

\* the throw of _checkDeprecationStatus, reached before _addToGraph
throwDeprecated(s, requirement, module) ==
  Fail(s, DeprecatedModuleError(getSlug(s, module)))

\* The resolver after getNextRequirement() took the head of the store
taken(s) == [s EXCEPT !.store = Tail(@), !.steps = @ + 1]

\* The resolver after both deprecation checks passed and _addToGraph ran,
\* where getNewVersion starts
inserted(s) ==
  LET requirement == Head(s.store)
      sourceChecked == IF requirement.sourceModule = Nil THEN taken(s)
                       ELSE checkDeprecationStatus(taken(s), requirement.sourceModule)
  IN addToGraph(checkDeprecationStatus(sourceChecked, requirement.targetModule), requirement)

\* A faulty variant of LoopStep: the iteration looks at the head of the store
\* and leaves it there, nothing else is done.
LoopStepKept(s) == [s EXCEPT !.steps = @ + 1, !.lastStep = "same"]

\* One iteration of the while loop of resolve(), the store not being empty.
LoopStep(s) ==
  LET requirement == Head(s.store)
      sourceModule == requirement.sourceModule
      targetModule == requirement.targetModule
      sourceChecked == IF sourceModule = Nil THEN taken(s)
                       ELSE checkDeprecationStatus(taken(s), sourceModule)
      targetChecked == checkDeprecationStatus(sourceChecked, targetModule)
      inGraph == inserted(s)
      oldVersion == inGraph.heap[targetModule].version
      search == getNewVersion(inGraph, requirement)
  IN IF ~RequirementIsValid(requirement)
     THEN Fail(taken(s), StateInvariantError)
     ELSE IF sourceModule # Nil /\ throwsDeprecated(s, sourceModule)
     THEN throwDeprecated(sourceChecked, requirement, sourceModule)
     ELSE IF throwsDeprecated(s, targetModule)
     THEN throwDeprecated(targetChecked, requirement, targetModule)
     ELSE IF ~search.found
     THEN IF getSlug(s, targetModule) \in ignoreList
          THEN [search.s EXCEPT !.lastStep = "ignored"]
          ELSE Fail(search.s, NoVersionFoundError(s, requirement))
     ELSE checkVersion(search.s, targetModule, oldVersion,
                       search.s.heap[targetModule].version)

\* PuppetFile.hasModule on the source Puppetfile
hasModule(s, slug) ==
  \E i \in 1..Len(sourcePuppetfile) : getSlug(s, sourcePuppetfile[i]) = slug

\* The forEachNode callback of resolve(), node after node in insertion order.
\* The test `!(module in resultPuppetfile.modules)` asks whether the array has
\* a property named after the object, which it never has, so it does not
\* restrain the push; the puppetfile node is no module and has no in-edge.
\* A faulty variant of dumpNode: the second test is an `if`, not an `else if`,
\* so a top-level module is pushed to both lists.
dumpNodeBoth(s, node) ==
  LET fromPuppetfile ==
        \E i \in 1..Len(s.edges) :
          s.edges[i].targetKey = node.key /\ s.edges[i].source = Puppetfile
      top == IF hasModule(s, node.key) \/ fromPuppetfile
             THEN [s EXCEPT !.modules = Append(@, node.module)]
             ELSE s
  IN IF node.key \in s.hideList THEN s
     ELSE IF node.key # PuppetfileNode
          THEN [top EXCEPT !.dependentModules = Append(@, node.module)]
          ELSE top

\* A faulty variant of dumpNode: only the in-edges decide, hasModule is not
\* asked.
dumpNodeByEdge(s, node) ==
  LET fromPuppetfile ==
        \E i \in 1..Len(s.edges) :
          s.edges[i].targetKey = node.key /\ s.edges[i].source = Puppetfile
  IN IF node.key \in s.hideList THEN s
     ELSE IF fromPuppetfile
          THEN [s EXCEPT !.modules = Append(@, node.module)]
          ELSE IF node.key # PuppetfileNode
               THEN [s EXCEPT !.dependentModules = Append(@, node.module)]
               ELSE s

dumpNode(s, node) ==
  LET fromPuppetfile ==
        \E i \in 1..Len(s.edges) :
          s.edges[i].targetKey = node.key /\ s.edges[i].source = Puppetfile
  IN IF node.key \in s.hideList THEN s
     ELSE IF hasModule(s, node.key) \/ fromPuppetfile
          THEN [s EXCEPT !.modules = Append(@, node.module)]
          ELSE IF node.key # PuppetfileNode
               THEN [s EXCEPT !.dependentModules = Append(@, node.module)]
               ELSE s

RECURSIVE dumpNodes(_, _)
dumpNodes(s, nodeList) ==
  IF nodeList = <<>> THEN s
  ELSE dumpNodes(dumpNode(s, Head(nodeList)), Tail(nodeList))

\* resolve() after the loop: the graph is dumped and the Puppetfile returned
dumpGraph(s) == [dumpNodes(s, s.nodes) EXCEPT !.pc = "done", !.lastStep = "dumped"]

\* ------------------------------------------------------------- construction
\* PuppetFile.fromText: one ModuleDeclaration per mod entry, in order. A :git
\* entry takes its version from metadata.json, a forge entry its literal
\* version or, without one, the newest release the forge lists.
RECURSIVE parseModules(_, _)
parseModules(s, mods) ==
  IF mods = <<>> THEN s
  ELSE LET entry == Head(mods)
           made ==
             IF entry.git
             THEN [s EXCEPT !.heap = Append(@, [slug |-> entry.slug,
                                                version |-> GitMetadata(entry.slug).version,
                                                forgeModule |-> FALSE])]
             ELSE IF entry.version # NoVersion
                  THEN [s EXCEPT !.heap = Append(@, [slug |-> entry.slug,
                                                     version |-> entry.version,
                                                     forgeModule |-> TRUE])]
                  ELSE fromText(s, entry.slug)
       IN parseModules(made, Tail(mods))

\* A faulty variant of withPuppetFile: the modules of the dependencies section
\* are queued as well.
withPuppetFileAll(s, count) ==
  [s EXCEPT !.store =
     [i \in 1..Len(s.heap) |-> Requirement(Puppetfile, Nil, i, EqRange(s.heap[i].version))]]

\* A faulty variant of withPuppetFile: the requirements are queued at the
\* front (unshift instead of push), so the store holds them in reverse order.
withPuppetFileReversed(s, count) ==
  [s EXCEPT !.store =
     [i \in 1..count |->
        Requirement(Puppetfile, Nil, count + 1 - i, EqRange(s.heap[count + 1 - i].version))]]

\* RequirementsStore.withPuppetFile: one requirement per entry of
\* puppetfile.modules, the first count objects parsed
withPuppetFile(s, count) ==
  [s EXCEPT !.store =
     [i \in 1..count |-> Requirement(Puppetfile, Nil, i, EqRange(s.heap[i].version))]]

\* ------------------------------------------------------------- strings
\* A string is a sequence of tokens: characters, or runs of characters that no
\* operation looks into. A text is the sequence of its lines, as
\* text.split(/\r?\n/) yields them.
DEFAULT_FORGE == <<"https://forgeapi.puppetlabs.com">>
DefaultDependencyIdentifier == <<"#", "#", " ", "dependencies">>

\* A local constant of the code: Op at the value, the value computed once.
With(value, Op(_)) == CHOOSE result \in {Op(x) : x \in {value}} : TRUE

\* Handlebars.Utils.escapeExpression, applied to every {{value}} of the
\* template: & < > " ' ` = are replaced by HTML entities.
escapeChar(c) ==
  CASE c = "&" -> <<"&", "amp;">>
    [] c = "<" -> <<"&", "lt;">>
    [] c = ">" -> <<"&", "gt;">>
    [] c = "'" -> <<"&", "#x27;">>
    [] c = "=" -> <<"&", "#x3D;">>
    [] OTHER -> <<c>>
RECURSIVE escapeExpression(_)
escapeExpression(str) ==
  IF str = <<>> THEN <<>> ELSE escapeChar(Head(str)) \o escapeExpression(Tail(str))

\* the string without its leading white space
RECURSIVE trimStart(_)
trimStart(str) == IF str # <<>> /\ Head(str) = " " THEN trimStart(Tail(str)) ELSE str

\* String.prototype.includes
includes(str, part) ==
  \E i \in 0..(Len(str) - Len(part)) : SubSeq(str, i + 1, i + Len(part)) = part

\* String.prototype.indexOf(c, from), 0 when there is none
indexOf(str, c, from) ==
  IF \E i \in from..Len(str) : str[i] = c
  THEN CHOOSE i \in from..Len(str) : str[i] = c /\ \A j \in from..(i - 1) : str[j] # c
  ELSE 0

\* String.prototype.split(separator)
RECURSIVE split(_, _)
split(str, separator) ==
  With(indexOf(str, separator, 1), LAMBDA at :
    IF at = 0 THEN <<str>>
    ELSE <<SubSeq(str, 1, at - 1)>>
           \o With(SubSeq(str, at + 1, Len(str)), LAMBDA rest : split(rest, separator)))

\* line.match(/^mod/)
startsWithMod(line) == line # <<>> /\ Head(line) \in {"mod", "module"}
\* line.match(/^\s*#\s*(?<comment>.*)$/) and its group
isComment(line) == trimStart(line) # <<>> /\ Head(trimStart(line)) = "#"
commentOf(line) == trimStart(Tail(trimStart(line)))
\* line.match(/^\s*$/)
isBlank(line) == trimStart(line) = <<>>
\* line.match(/forge '(?<forge>[^']+)'/): the group, <<>> without match
forgeOf(line) ==
  LET starts == {i \in 1..Len(line) :
                   /\ i + 2 <= Len(line)
                   /\ line[i] = "forge" /\ line[i + 1] = " " /\ line[i + 2] = "'"
                   /\ indexOf(line, "'", i + 3) > i + 3}
      first == CHOOSE i \in starts : \A j \in starts : i <= j
  IN IF starts = {} THEN <<>>
     ELSE SubSeq(line, first + 3, indexOf(line, "'", first + 3) - 1)

\* ------------------------------------------------------------- module declarations
\* What the surroundings answer: the newest release the forge lists for a
\* module, the repositories that can be cloned and the version their
\* metadata.json names.
NewestRelease == <<"1.2.3">>
GitRepositories == {<<"/repo/git">>, <<"/repo/git2">>}
GitMetadataVersion == <<"0.1.2">>

\* a ModuleDeclaration as PuppetFile uses it; <<>> stands for undefined
NewModule ==
  [author |-> <<>>, name |-> <<>>, forgeModule |-> TRUE, version |-> <<>>,
   git |-> <<>>, ref |-> <<>>, comments |-> <<>>]

\* moduleRegExp: ^mod '(?<author>[^-]+)[-/](?<name>[^']+)'(,\s*'(?<version>[^']+)')?
\* The author is the longest run without "-" that a separator and a name
\* follow: the position of that separator, 0 without match.
separatorOf(text) ==
  With({p \in 5..Len(text) :
          /\ text[p] \in {"-", "/"}
          /\ \A j \in 4..(p - 1) : text[j] # "-"
          /\ indexOf(text, "'", p + 1) > p + 1},
       LAMBDA seps :
         IF Len(text) < 3 \/ SubSeq(text, 1, 3) # <<"mod", " ", "'">> \/ seps = {} THEN 0
         ELSE CHOOSE s \in seps : \A other \in seps : other <= s)

\* the optional group after the name's closing quote at q: the position of the
\* quote that opens the version, 0 when the group does not match
versionOpens(text, q) ==
  With({i \in (q + 2)..Len(text) : text[i] # " "}, LAMBDA nonSpace :
    IF nonSpace = {} \/ q + 1 > Len(text) \/ text[q + 1] # "," THEN 0
    ELSE With(CHOOSE i \in nonSpace : \A j \in nonSpace : i <= j, LAMBDA open :
           IF text[open] = "'" /\ indexOf(text, "'", open + 1) > open + 1 THEN open ELSE 0))

\* the match and its groups; end is the position of the last token matched
moduleRegExp(text) ==
  With(separatorOf(text), LAMBDA p :
    IF p = 0
    THEN [matched |-> FALSE, author |-> <<>>, name |-> <<>>, version |-> <<>>, end |-> 0]
    ELSE With(indexOf(text, "'", p + 1), LAMBDA q :
         With(versionOpens(text, q), LAMBDA open :
           [matched |-> TRUE,
            author |-> SubSeq(text, 4, p - 1),
            name |-> SubSeq(text, p + 1, q - 1),
            version |-> IF open > 0
                        THEN SubSeq(text, open + 1, indexOf(text, "'", open + 1) - 1)
                        ELSE <<>>,
            end |-> IF open > 0 THEN indexOf(text, "'", open + 1) ELSE q])))

\* The parameters of a declaration: what is left without the match and without
\* white space, split at "," ; each part, without quotes, split at "=>" into
\* key and value.
parametersOf(text) ==
  With(split(SelectSeq(SubSeq(text, moduleRegExp(text).end + 1, Len(text)),
                       LAMBDA c : c # " "), ","),
       LAMBDA parts :
         [i \in 1..Len(parts) |-> split(SelectSeq(parts[i], LAMBDA c : c # "'"), "=>")])

\* key in parameters
hasKey(parameters, key) == \E i \in 1..Len(parameters) : parameters[i][1] = <<key>>

\* parameters[key]: the last assignment wins, undefined without "=>"
valueOf(parameters, key) ==
  With(CHOOSE i \in 1..Len(parameters) :
         /\ parameters[i][1] = <<key>>
         /\ \A j \in (i + 1)..Len(parameters) : parameters[j][1] # <<key>>,
       LAMBDA last : IF Len(parameters[last]) >= 2 THEN parameters[last][2] ELSE <<>>)

\* the declaration the match and the parameters make
declarationOf(matches, parameters) ==
  IF ~matches.matched THEN [ok |-> FALSE, module |-> NewModule]
  ELSE IF hasKey(parameters, ":git")
  THEN [ok |-> valueOf(parameters, ":git") \in GitRepositories,
        module |-> [NewModule EXCEPT !.author = matches.author, !.name = matches.name,
                                     !.forgeModule = FALSE,
                                     !.git = valueOf(parameters, ":git"),
                                     !.ref = IF hasKey(parameters, ":ref")
                                             THEN valueOf(parameters, ":ref") ELSE <<>>,
                                     !.version = GitMetadataVersion]]
  ELSE [ok |-> TRUE,
        module |-> [NewModule EXCEPT !.author = matches.author, !.name = matches.name,
                                     !.version = IF matches.version # <<>> THEN matches.version
                                                 ELSE NewestRelease]]

\* ModuleDeclaration.fromText(text) for the text of one declaration:
\* ok = FALSE stands for a throw (invalid declaration, repository not found).
declarationFromText(text) ==
  With(text, LAMBDA declaration :
    With(moduleRegExp(declaration), LAMBDA matches :
      With(IF matches.matched THEN parametersOf(declaration) ELSE <<>>, LAMBDA parameters :
        declarationOf(matches, parameters))))

\* ------------------------------------------------------------- PuppetFile.fromText
\* the local variables of fromText before the first line
NewParser ==
  [currentDeclaration |-> <<>>, inDeclaration |-> FALSE, inDependencies |-> FALSE,
   currentComment |-> <<>>, readingComment |-> <<>>]

\* new PuppetFile().withDependencyIdentifier(identifier).withPreamble(preamble);
\* the preamble is kept as its lines, <<>> being the empty string
NewPuppetFile(identifier, preamble) ==
  [modules |-> <<>>, dependentModules |-> <<>>, forge |-> DEFAULT_FORGE,
   preamble |-> preamble, dependencyIdentifier |-> identifier]

\* addToModules: the pending declaration, if any, becomes a module with the
\* comment block kept for it, in the list inDependencies selects.
addToModules(o) ==
  IF o.parser.inDeclaration /\ o.parser.currentDeclaration # <<>>
  THEN With(declarationFromText(o.parser.currentDeclaration), LAMBDA made :
         IF ~made.ok THEN [o EXCEPT !.thrown = TRUE]
         ELSE IF o.parser.inDependencies
         THEN [o EXCEPT !.puppetFile.dependentModules =
                          Append(@, [made.module EXCEPT !.comments = o.parser.currentComment])]
         ELSE [o EXCEPT !.puppetFile.modules =
                          Append(@, [made.module EXCEPT !.comments = o.parser.currentComment])])
  ELSE o

\* A faulty variant of readComment: a blank line does not discard the comment
\* block being read.
readCommentKeepsBlock(o, line) ==
  IF isComment(line)
  THEN [o EXCEPT !.parser.readingComment = Append(@, commentOf(line))]
  ELSE o

\* the comment and the blank-line branch of the loop body (lines 115-118)
readComment(o, line) ==
  IF isComment(line)
  THEN [o EXCEPT !.parser.readingComment = Append(@, commentOf(line))]
  ELSE [o EXCEPT !.parser.readingComment = <<>>]

\* A faulty variant of readLine: on the sentinel line the list is switched
\* before the pending declaration is added.
readLineSwitchesFirst(o, line) ==
  IF startsWithMod(line) \/ includes(line, o.puppetFile.dependencyIdentifier)
  THEN LET switched == IF includes(line, o.puppetFile.dependencyIdentifier)
                       THEN [o EXCEPT !.parser.inDependencies = TRUE] ELSE o
           added == addToModules(switched)
           kept == [added EXCEPT !.parser.currentComment = o.parser.readingComment,
                                 !.parser.readingComment = <<>>]
       IN IF includes(line, o.puppetFile.dependencyIdentifier)
          THEN [kept EXCEPT !.parser.currentDeclaration = <<>>,
                            !.parser.inDeclaration = FALSE]
          ELSE [kept EXCEPT !.parser.inDeclaration = TRUE,
                            !.parser.currentDeclaration = line]
  ELSE IF isComment(line) \/ isBlank(line)
  THEN readComment(o, line)
  ELSE IF o.parser.inDeclaration
  THEN [o EXCEPT !.parser.currentDeclaration = @ \o line]
  ELSE IF forgeOf(line) # <<>>
  THEN [o EXCEPT !.puppetFile.forge = forgeOf(line)]
  ELSE o

\* the body of the for loop of fromText for one line
readLine(o, line) ==
  IF startsWithMod(line) \/ includes(line, o.puppetFile.dependencyIdentifier)
  THEN LET added == addToModules(o)
           kept == [added EXCEPT !.parser.currentComment = o.parser.readingComment,
                                 !.parser.readingComment = <<>>]
       IN IF includes(line, o.puppetFile.dependencyIdentifier)
          THEN [kept EXCEPT !.parser.inDependencies = TRUE,
                            !.parser.currentDeclaration = <<>>,
                            !.parser.inDeclaration = FALSE]
          ELSE [kept EXCEPT !.parser.inDeclaration = TRUE,
                            !.parser.currentDeclaration = line]
  ELSE IF isComment(line) \/ isBlank(line)
  THEN readComment(o, line)
  ELSE IF o.parser.inDeclaration
  THEN [o EXCEPT !.parser.currentDeclaration = @ \o line]
  ELSE IF forgeOf(line) # <<>>
  THEN [o EXCEPT !.puppetFile.forge = forgeOf(line)]
  ELSE o

\* ------------------------------------------------------------- PuppetFile.toText
\* a.name < b.name for strings, by the order of the tokens names are made of
NameOrder == <<"a", "b", "default", "default2", "dependency", "dependency2", "git", "git2">>
Rank(token) ==
  IF \E i \in 1..Len(NameOrder) : NameOrder[i] = token
  THEN CHOOSE i \in 1..Len(NameOrder) : NameOrder[i] = token
  ELSE 0
RECURSIVE NameLess(_, _)
NameLess(a, b) ==
  IF b = <<>> THEN FALSE
  ELSE IF a = <<>> THEN TRUE
  ELSE IF Rank(Head(a)) # Rank(Head(b)) THEN Rank(Head(a)) < Rank(Head(b))
  ELSE NameLess(Tail(a), Tail(b))

\* Array.prototype.sort(sortByModuleName): stable, by name alone
RECURSIVE sortByModuleName(_)
sortByModuleName(list) ==
  IF list = <<>> THEN <<>>
  ELSE With(sortByModuleName(SubSeq(list, 1, Len(list) - 1)), LAMBDA sorted :
         SelectSeq(sorted, LAMBDA m : ~NameLess(list[Len(list)].name, m.name))
           \o <<list[Len(list)]>>
           \o SelectSeq(sorted, LAMBDA m : NameLess(list[Len(list)].name, m.name)))

\* {{#each comments}}# {{{this}}}: the comments are not escaped
commentLines(module) == [i \in 1..Len(module.comments) |-> <<"#", " ">> \o module.comments[i]]

Indent == <<" ", " ", " ", " ">>

\* the lines of one git module (template lines 186-194)
gitModuleLines(module, isLast) ==
  commentLines(module)
    \o << <<"mod", " ", "'">> \o escapeExpression(module.author) \o <<"-">>
            \o escapeExpression(module.name) \o <<"'", ",">> >>
    \o << Indent \o <<":git", " ", "=>", " ", "'">> \o escapeExpression(module.git) \o <<"'">>
            \o (IF module.ref # <<>> THEN <<",">> ELSE <<>>) >>
    \o (IF module.ref # <<>>
        THEN << Indent \o <<":ref", " ", "=>", " ", "'">> \o escapeExpression(module.ref) \o <<"'">> >>
        ELSE <<>>)
    \o (IF isLast THEN <<>> ELSE <<Indent>>)

\* the lines of one forge module or one dependent module (template lines
\* 200-206 and 212-217)
forgeModuleLines(module, isLast) ==
  commentLines(module)
    \o << <<"mod", " ", "'">> \o escapeExpression(module.author) \o <<"-">>
            \o escapeExpression(module.name) \o <<"'", ",", " ", "'">>
            \o escapeExpression(module.version) \o <<"'">> >>
    \o (IF isLast THEN <<>> ELSE << <<>> >>)

RECURSIVE eachGitModule(_)
eachGitModule(list) ==
  IF list = <<>> THEN <<>>
  ELSE gitModuleLines(Head(list), Len(list) = 1) \o eachGitModule(Tail(list))

RECURSIVE eachForgeModule(_)
eachForgeModule(list) ==
  IF list = <<>> THEN <<>>
  ELSE forgeModuleLines(Head(list), Len(list) = 1) \o eachForgeModule(Tail(list))

\* PuppetFile.toText(): the lines of the text the template yields. The text
\* ends without line break after the last dependent module, and with an empty
\* line when there is none.
toText(file) ==
  LET gitModules == sortByModuleName(SelectSeq(file.modules, LAMBDA m : ~m.forgeModule))
      forgeModules == sortByModuleName(SelectSeq(file.modules, LAMBDA m : m.forgeModule))
      dependents == sortByModuleName(file.dependentModules)
  IN << <<"forge", " ", "'">> \o escapeExpression(file.forge) \o <<"'">>, <<>> >>
       \o (IF file.preamble # <<>>
           THEN [i \in 1..Len(file.preamble) |-> escapeExpression(file.preamble[i])]
                  \o << <<>> >>
           ELSE <<>>)
       \o << <<"#", " ", "Git", " ", "modules">>, <<>> >>
       \o eachGitModule(gitModules)
       \o << <<>>, <<"#", " ", "Forge", " ", "modules">>, <<>> >>
       \o eachForgeModule(forgeModules)
       \o << <<>>, escapeExpression(file.dependencyIdentifier), <<>> >>
       \o (IF dependents = <<>> THEN << <<>> >> ELSE eachForgeModule(dependents))

\* ------------------------------------------------------------- manifests read and written
\* the identifier of the test "should work with another dependency indicator"
OtherDependencyIdentifier == <<"#", "#", " ", "<", "<", "dependencies">>
DependencyIdentifiers == {DefaultDependencyIdentifier, OtherDependencyIdentifier}

\* the preamble of the command line test, and none
Preambles == {<<>>, << <<"TEST">>, <<"PREAMBLE">> >>}

ModLine(author, separator, name) == <<"mod", " ", "'", author, separator, name, "'">>
VersionPart(version) == <<",", " ", "'", version, "'">>
CommentLine(comment) == <<"#", " ">> \o comment

\* The lines the manifests read are made of: forge entries with the version
\* on the line, on the next line or missing, a git entry with its :ref on the
\* next line, an entry without separator, comment lines, the empty line, the
\* sentinel and a forge line.
InputLines(identifier) ==
  { ModLine("test", "-", "a") \o VersionPart("1.0.0"),
    ModLine("test", "/", "b") \o <<",">>,
    Indent \o <<"'", "2.0.0", "'">>,
    ModLine("test", "-", "git") \o <<",", " ", ":git", " ", "=>", " ", "'", "/repo/git", "'", ",">>,
    <<" ", " ", ":ref", " ", "=>", " ", "'", "test", "'">>,
    <<"mod", " ", "'", "broken", "'">>,
    CommentLine(<<"one">>),
    <<" ", "#", "two">>,
    <<>>,
    identifier,
    <<"forge", " ", "'", "http://localhost:9000", "'">> }

\* the longest manifest made of these lines
MaxLines == 3

\* the modules of the manifests in canonical form
GitModule(name, repository, ref, comments) ==
  [NewModule EXCEPT !.author = <<"test">>, !.name = <<name>>, !.forgeModule = FALSE,
                    !.version = GitMetadataVersion, !.git = <<repository>>,
                    !.ref = ref, !.comments = comments]
ForgeModule(name, version, comments) ==
  [NewModule EXCEPT !.author = <<"test">>, !.name = <<name>>, !.version = <<version>>,
                    !.comments = comments]
SomeComment == << <<"Some", " ", "comment">>, <<"before", " ", "the", " ", "module">> >>

CanonicalGitModules ==
  { <<>>,
    <<GitModule("git", "/repo/git", <<"test">>, <<>>)>>,
    <<GitModule("git", "/repo/git", <<"test">>, <<>>),
      GitModule("git2", "/repo/git2", <<>>, SomeComment)>> }
CanonicalForgeModules ==
  { <<>>,
    <<ForgeModule("default", "1.2.3", <<>>)>>,
    <<ForgeModule("default", "1.2.3", <<>>), ForgeModule("default2", "1.2.3", SomeComment)>> }
CanonicalDependentModules ==
  { <<>>,
    <<ForgeModule("dependency", "1.2.4", <<>>)>>,
    <<ForgeModule("dependency", "1.2.4", SomeComment), ForgeModule("dependency2", "2.0.0", <<>>)>> }

\* the entries of a section, one line between two of them
RECURSIVE Separated(_, _)
Separated(entries, separator) ==
  IF entries = <<>> THEN <<>>
  ELSE IF Len(entries) = 1 THEN Head(entries)
  ELSE Head(entries) \o <<separator>> \o Separated(Tail(entries), separator)

CanonicalGitEntry(module) ==
  [i \in 1..Len(module.comments) |-> CommentLine(module.comments[i])]
    \o << ModLine(module.author[1], "-", module.name[1]) \o <<",">>,
          Indent \o <<":git", " ", "=>", " ", "'">> \o module.git \o <<"'">>
            \o (IF module.ref = <<>> THEN <<>> ELSE <<",">>) >>
    \o (IF module.ref = <<>> THEN <<>>
        ELSE << Indent \o <<":ref", " ", "=>", " ", "'">> \o module.ref \o <<"'">> >>)
CanonicalForgeEntry(module) ==
  [i \in 1..Len(module.comments) |-> CommentLine(module.comments[i])]
    \o << ModLine(module.author[1], "-", module.name[1]) \o VersionPart(module.version[1]) >>

\* A manifest in the canonical form: the forge line, the git modules sorted by
\* name, the forge modules sorted by name, the sentinel, the dependent modules
\* sorted by name, every comment block right above its entry.
CanonicalManifest(identifier, gitModules, forgeModules, dependents) ==
  << <<"forge", " ", "'", "http://localhost:9000", "'">>, <<>>,
     CommentLine(<<"Git", " ", "modules">>), <<>> >>
    \o Separated([i \in 1..Len(gitModules) |-> CanonicalGitEntry(gitModules[i])], Indent)
    \o << <<>>, CommentLine(<<"Forge", " ", "modules">>), <<>> >>
    \o Separated([i \in 1..Len(forgeModules) |-> CanonicalForgeEntry(forgeModules[i])], <<>>)
    \o << <<>>, identifier, <<>> >>
    \o (IF dependents = <<>> THEN << <<>> >>
        ELSE Separated([i \in 1..Len(dependents) |-> CanonicalForgeEntry(dependents[i])], <<>>))

CanonicalManifests(identifier) ==
  { CanonicalManifest(identifier, gitModules, forgeModules, dependents) :
      gitModules \in CanonicalGitModules, forgeModules \in CanonicalForgeModules,
      dependents \in CanonicalDependentModules }

\* the manifests of at most MaxLines lines
ShortManifests(identifier) ==
  UNION { [1..n -> InputLines(identifier)] : n \in 0..MaxLines }

\* no Puppetfile is being read or written
TextIdle ==
  /\ remaining = <<>>
  /\ sourceText = <<>>
  /\ parser = NewParser
  /\ puppetFile = NewPuppetFile(DefaultDependencyIdentifier, <<>>)
  /\ emitted = <<>>
  /\ phase = "idle"

\* ------------------------------------------------------------- ModuleDeclaration.fetchGitMetadata
\* what this.git and this.ref are set to, the refs the repositories have, and
\* what their metadata.json holds
GitSettings == {<<>>, <<"/repo/none">>} \cup GitRepositories
RefSettings == {<<>>, <<"test">>, <<"nobranch">>}
GitRefs == {<<"test">>}
\* metadata.json: there is none, it is no JSON, it is the JSON text null, or
\* it is an object with or without (<<>>) a version
MetadataFiles ==
  { [content |-> content, version |-> <<>>] : content \in {"missing", "malformed", "null", "object"} }
    \cup { [content |-> "object", version |-> GitMetadataVersion] }

\* fetchGitMetadata is called on a module; no temporary directory exists
NewFetch(git, ref, version, file) ==
  [git |-> git, ref |-> ref, version |-> version, availableVersions |-> <<>>,
   gitMetadata |-> <<>>, file |-> file,
   pc |-> "called", localTmp |-> Nil, tmpDirs |-> {}, thrown |-> ""]

\* no module fetches metadata
NoFetch ==
  [NewFetch(<<>>, <<>>, <<>>, [content |-> "missing", version |-> <<>>]) EXCEPT !.pc = "idle"]

throw(f, message) == [f EXCEPT !.pc = "thrown", !.thrown = message]

\* fetchGitMetadata from one await to the next
fetchGitMetadata(f) ==
  CASE f.pc = "called" ->
         IF f.git = <<>> THEN throw(f, "About to fetch git metadata without a git setting")
         ELSE [f EXCEPT !.localTmp = Cardinality(f.tmpDirs) + 1,
                        !.tmpDirs = @ \cup {Cardinality(f.tmpDirs) + 1},
                        !.pc = "cloning"]
    [] f.pc = "cloning" ->
         IF f.git \notin GitRepositories THEN throw(f, "Can not clone git repository")
         ELSE [f EXCEPT !.pc = IF f.ref # <<>> THEN "checkingOut" ELSE "statting"]
    [] f.pc = "checkingOut" ->
         IF f.ref \notin GitRefs THEN throw(f, "Can not checkout git reference")
         ELSE [f EXCEPT !.pc = "statting"]
    [] f.pc = "statting" ->
         IF f.file.content = "missing" THEN throw(f, "Can't find metadata.json in repository")
         ELSE [f EXCEPT !.pc = "reading"]
    [] f.pc = "reading" ->
         IF f.file.content = "malformed" THEN throw(f, "SyntaxError")
         ELSE IF f.file.content = "null" THEN throw(f, "Couldn't parse metadata json")
         ELSE IF f.version = <<>> /\ f.file.version # <<>>
         THEN [f EXCEPT !.gitMetadata = <<f.file>>, !.version = f.file.version,
                        !.availableVersions = <<f.file.version>>, !.pc = "returned"]
         ELSE [f EXCEPT !.gitMetadata = <<f.file>>, !.pc = "returned"]
    [] OTHER -> f

\* ------------------------------------------------------------- ForgeCache, callers in flight
\* The most operations one caller makes
MaxCalls == 2
Callers == 1..2
\* what a caller does with the releases of the slug
Calls == {"hasAvailableVersion", "getNextAvailableVersion"}
Programs == UNION { [1..n -> Calls] : n \in 1..MaxCalls }

\* The cache entry of the slug is empty (Nil) and no array exists; every
\* caller has its calls before it. An array is known by its position in
\* lists.
NewLookups(programs) ==
  [lists |-> <<>>, cache |-> Nil, raced |-> FALSE,
   callers |-> [c \in Callers |->
                  [pc |-> "idle", todo |-> programs[c], held |-> Nil, taken |-> <<>>]]]

NoLookups == NewLookups([c \in Callers |-> <<>>])

\* ForgeCache.getReleases up to its await: a hit returns the cached array, a
\* miss asks the forge
getReleasesCalled(l, c) ==
  IF l.cache # Nil
  THEN [l EXCEPT !.callers[c].pc = "holding", !.callers[c].held = l.cache]
  ELSE [l EXCEPT !.callers[c].pc = "inflight",
                 !.raced = @ \/ \E other \in Callers \ {c} : l.callers[other].pc = "inflight"]

\* ForgeCache.getReleases after its await: a new array is stored under the
\* slug, filled and returned, whatever the cache holds by now
getReleasesAnswered(l, c) ==
  [l EXCEPT !.lists = Append(@, Descending),
            !.cache = Len(l.lists) + 1,
            !.callers[c].pc = "holding",
            !.callers[c].held = Len(l.lists) + 1]

\* the caller goes on with the array it was given: getNextAvailableVersion
\* shifts it and stores it with updateAvailableReleases, hasAvailableVersion
\* only looks at its length
callReturned(l, c) ==
  LET array == l.callers[c].held
      done == [l EXCEPT !.callers[c].pc = "idle", !.callers[c].todo = Tail(@)]
  IN IF Head(l.callers[c].todo) = "getNextAvailableVersion"
     THEN [done EXCEPT !.lists[array] = IF @ = <<>> THEN @ ELSE Tail(@),
                       !.cache = array,
                       !.callers[c].taken =
                          Append(@, IF l.lists[array] = <<>> THEN NoVersion
                                    ELSE Head(l.lists[array]))]
     ELSE done

\* nothing is fetched and nothing looked up
NoCall == [op |-> "none", slug |-> "", version |-> NoVersion]
NoForgeCall ==
  [op |-> "none", key |-> <<"", NoVersion>>, requests |-> {}, returned |-> FALSE,
   value |-> <<>>, before |-> {}]

UnitsIdle ==
  /\ gitFetch = NoFetch
  /\ lookups = NoLookups
  /\ storeCall = NoCall
  /\ forgeCall = NoForgeCall

\* ------------------------------------------------------------- runs
\* A resolver before resolve(): empty graph, empty cache, nothing parsed
Blank(hide) ==
  [heap |-> <<>>, store |-> <<>>, nodes |-> <<>>, edges |-> <<>>,
   releases |-> [slug \in {} |-> <<>>], forgeModuleData |-> {}, dependencies |-> {},
   pc |-> "resolving", error |-> NoError, modules |-> <<>>, dependentModules |-> <<>>,
   steps |-> 0, lastStep |-> "start", hideList |-> hide]

Constructed(mods, hide) == withPuppetFile(parseModules(Blank(hide), mods), Len(mods))

StartsAs(n) ==
  /\ heap = n.heap
  /\ store = n.store
  /\ nodes = n.nodes
  /\ edges = n.edges
  /\ releases = n.releases
  /\ forgeModuleData = n.forgeModuleData
  /\ dependencies = n.dependencies
  /\ pc = n.pc
  /\ error = n.error
  /\ modules = n.modules
  /\ dependentModules = n.dependentModules
  /\ steps = n.steps
  /\ lastStep = n.lastStep

IgnoreLists == {{}, {C}}
HideLists == {{}, {A}, {B, C}}

Init ==
  \E reg \in Registries, mods \in Puppetfiles, ignore \in IgnoreLists, hide \in HideLists :
    /\ forge = reg
    /\ ignoreList = ignore
    /\ hideList = hide
    /\ sourcePuppetfile = [i \in 1..Len(mods) |-> i]
    /\ sourceDependents = <<>>
    /\ manifest = mods
    /\ \E made \in {Constructed(mods, hide)} : StartsAs(made)
    /\ twin = Constructed(mods, {})
    /\ TextIdle
    /\ UnitsIdle

\* The resolver of a Puppetfile with a dependencies section: PuppetFile.fromText
\* builds the modules of the section after the top-level ones.
ConstructedWith(mods, dependents, hide) ==
  withPuppetFile(parseModules(Blank(hide), mods \o dependents), Len(mods))

\* Dependencies sections of the Puppetfiles read
DependentSections ==
  { <<Mod(D, 1, FALSE)>>,
    <<Mod(C, NoVersion, FALSE), Mod(B, 1, FALSE)>> }

InitDependents ==
  \E reg \in Registries, mods \in Puppetfiles, ignore \in IgnoreLists,
     dependents \in DependentSections :
    /\ forge = reg
    /\ ignoreList = ignore
    /\ hideList = {}
    /\ sourcePuppetfile = [i \in 1..Len(mods) |-> i]
    /\ sourceDependents = [i \in 1..Len(dependents) |-> Len(mods) + i]
    /\ manifest = mods
    /\ \E made \in {ConstructedWith(mods, dependents, {})} : StartsAs(made)
    /\ twin = Constructed(mods, {})
    /\ TextIdle
    /\ UnitsIdle

\* ------------------------------------------------------------- actions
\* resolve() as far as the twin is concerned: its next loop iteration, or the
\* dump once its store is empty
Advance(s) ==
  IF s.pc # "resolving" THEN s
  ELSE IF s.store # <<>> THEN LoopStep(s) ELSE dumpGraph(s)

\* one iteration of the while loop
Resolve ==
  /\ pc = "resolving"
  /\ store # <<>>
  /\ steps < MaxSteps
  /\ \E next \in {LoopStep(Cur)} : Becomes(next)
  /\ twin' = Advance(twin)
  /\ UNCHANGED config
  /\ UNCHANGED textVars
  /\ UNCHANGED unitVars

\* the store is empty: the graph is dumped to the result Puppetfile
Dump ==
  /\ pc = "resolving"
  /\ store = <<>>
  /\ \E next \in {dumpGraph(Cur)} : Becomes(next)
  /\ twin' = Advance(twin)
  /\ UNCHANGED config
  /\ UNCHANGED textVars
  /\ UNCHANGED unitVars

Next == Resolve \/ Dump

Spec == Init /\ [][Next]_vars

\* resolve() is one chain of awaits: while the registry answers, the loop
\* takes its next iteration and, the store being empty, the graph is dumped.
\* What every step of resolve() does to its position: the loop takes an
\* iteration or resolve() ends. It can be taken wherever Next can.
LoopTurn ==
  /\ pc = "resolving"
  /\ store # <<>> => steps < MaxSteps
  /\ steps' \in {steps, steps + 1}
  /\ pc' \in {"resolving", "done", "failed"}

SpecFair == Init /\ [][Next]_vars /\ WF_<<pc, steps>>(LoopTurn)

\* resolve() for Puppetfiles with a dependencies section, next to the same
\* Puppetfile without it
SpecDependents == InitDependents /\ [][Next]_vars

\* ------------------------------------------------------------- a second run in the process
\* The process reads the same Puppetfile text again and builds a new resolver
\* for it: new module objects, a new store and a new result Puppetfile. The
\* graph and the forge cache are the singletons of the process: neither
\* withPuppetFile nor resolve() clears them.
constructedAgain(s, mods) ==
  LET parsed == parseModules(s, mods)
      first == Len(s.heap)
  IN [parsed EXCEPT
        !.store = [i \in 1..Len(mods) |->
                     Requirement(Puppetfile, Nil, first + i,
                                 EqRange(parsed.heap[first + i].version))],
        !.pc = "resolving", !.error = NoError, !.modules = <<>>,
        !.dependentModules = <<>>, !.steps = 0, !.lastStep = "start"]

\* the resolver at work is the one the process built first
FirstRun == sourcePuppetfile = [i \in 1..Len(manifest) |-> i]

\* resolve() has returned or thrown; the process resolves the Puppetfile again
ResolveAgain ==
  /\ pc \in {"done", "failed"}
  /\ FirstRun
  /\ \E next \in {constructedAgain(Cur, manifest)} : Becomes(next)
  /\ sourcePuppetfile' = [i \in 1..Len(manifest) |-> Len(heap) + i]
  /\ UNCHANGED <<forge, sourceDependents, manifest, ignoreList, hideList, twin>>
  /\ UNCHANGED textVars
  /\ UNCHANGED unitVars

\* without hide list the twin is the first run itself
InitAgain == Init /\ hideList = {}

NextAgain == Resolve \/ Dump \/ ResolveAgain

SpecAgain == InitAgain /\ [][NextAgain]_vars

\* no resolver is at work
ResolverIdle ==
  /\ forge = [ab |-> {}, ba |-> {}, ac |-> {}, bc |-> {}, cd |-> "none",
              rel |-> "full", deprecated |-> {}, order |-> "ac", listing |-> "descending"]
  /\ sourcePuppetfile = <<>>
  /\ sourceDependents = <<>>
  /\ manifest = <<>>
  /\ ignoreList = {}
  /\ hideList = {}
  /\ StartsAs(Blank({}))
  /\ twin = Blank({})

\* ------------------------------------------------------------- fetching git metadata
InitGit ==
  /\ ResolverIdle
  /\ TextIdle
  /\ lookups = NoLookups
  /\ storeCall = NoCall
  /\ forgeCall = NoForgeCall
  /\ \E git \in GitSettings, ref \in RefSettings, version \in {<<>>, <<"9.9.9">>},
        file \in MetadataFiles :
       gitFetch = NewFetch(git, ref, version, file)

\* fetchGitMetadata runs to its next await, returns or throws
FetchGitMetadata ==
  /\ gitFetch.pc \notin {"idle", "returned", "thrown"}
  /\ gitFetch' = fetchGitMetadata(gitFetch)
  /\ UNCHANGED <<lookups, storeCall, forgeCall>>
  /\ UNCHANGED resolverVars
  /\ UNCHANGED textVars

SpecGit == InitGit /\ [][FetchGitMetadata]_vars

\* ------------------------------------------------------------- lookups in flight
InitLookups ==
  /\ ResolverIdle
  /\ TextIdle
  /\ gitFetch = NoFetch
  /\ storeCall = NoCall
  /\ forgeCall = NoForgeCall
  /\ \E programs \in [Callers -> Programs] : lookups = NewLookups(programs)

\* a caller starts its next call
Call(c) ==
  /\ lookups.callers[c].pc = "idle"
  /\ lookups.callers[c].todo # <<>>
  /\ lookups' = getReleasesCalled(lookups, c)

\* the forge answers a caller
Answer(c) ==
  /\ lookups.callers[c].pc = "inflight"
  /\ lookups' = getReleasesAnswered(lookups, c)

\* the caller's await of getAvailableVersions is over
Return(c) ==
  /\ lookups.callers[c].pc = "holding"
  /\ lookups' = callReturned(lookups, c)

NextLookups ==
  /\ \E c \in Callers : Call(c) \/ Answer(c) \/ Return(c)
  /\ UNCHANGED <<gitFetch, storeCall, forgeCall>>
  /\ UNCHANGED resolverVars
  /\ UNCHANGED textVars

SpecLookups == InitLookups /\ [][NextLookups]_vars

\* ------------------------------------------------------------- a store on its own
\* A RequirementsStore used without a resolver: made from a Puppetfile, then
\* called through its public methods (the way its tests use it).
MaxQueue == 3
StoreSlugs == {A, B}
StorePuppetfiles == { <<>>, <<Mod(A, 1, FALSE)>> }

\* the module a caller has declared besides those of the Puppetfile
StorePool == << [slug |-> B, version |-> 1, forgeModule |-> TRUE] >>

NewStore(mods) ==
  LET made == Constructed(mods, {})
  IN [made EXCEPT !.heap = @ \o StorePool, !.pc = "store"]

\* RequirementsStore.getNextRequirement, the store not being empty
getNextRequirement(s) == [s EXCEPT !.store = Tail(@)]

InitStore ==
  /\ \E mods \in StorePuppetfiles :
       /\ \E made \in {NewStore(mods)} : StartsAs(made)
       /\ sourcePuppetfile = [i \in 1..Len(mods) |-> i]
       /\ manifest = mods
  /\ forge = [ab |-> {}, ba |-> {}, ac |-> {}, bc |-> {}, cd |-> "none",
              rel |-> "full", deprecated |-> {}, order |-> "ac", listing |-> "descending"]
  /\ sourceDependents = <<>>
  /\ ignoreList = {}
  /\ hideList = {}
  /\ twin = Blank({})
  /\ TextIdle
  /\ gitFetch = NoFetch
  /\ lookups = NoLookups
  /\ storeCall = NoCall
  /\ forgeCall = NoForgeCall

StoreFrame ==
  /\ UNCHANGED <<config, twin>>
  /\ UNCHANGED textVars
  /\ UNCHANGED <<gitFetch, lookups, forgeCall>>

\* addRequirement(new Requirement().withSource(Dependency).withSourceModule(..)
\*   .withTargetModule(..).withDependencyRange(..))
AddRequirement ==
  /\ pc = "store"
  /\ Len(store) < MaxQueue
  /\ \E sourceModule \in DOMAIN heap, targetModule \in DOMAIN heap :
       Becomes(addRequirement(Cur, Requirement(Dependency, sourceModule, targetModule,
                                              AtMost(1))))
  /\ storeCall' = [op |-> "addRequirement", slug |-> "", version |-> NoVersion]
  /\ StoreFrame

GetNextRequirement ==
  /\ pc = "store"
  /\ store # <<>>
  /\ Becomes(getNextRequirement(Cur))
  /\ storeCall' = [op |-> "getNextRequirement", slug |-> "", version |-> NoVersion]
  /\ StoreFrame

UpdateTargetVersion ==
  /\ pc = "store"
  /\ \E slug \in StoreSlugs, version \in Versions :
       /\ Becomes(updateTargetVersion(Cur, slug, version))
       /\ storeCall' = [op |-> "updateTargetVersion", slug |-> slug, version |-> version]
  /\ StoreFrame

DeleteSourceRequirements ==
  /\ pc = "store"
  /\ \E sourceSlug \in StoreSlugs :
       /\ Becomes(deleteSourceRequirements(Cur, sourceSlug))
       /\ storeCall' = [op |-> "deleteSourceRequirements", slug |-> sourceSlug,
                        version |-> NoVersion]
  /\ StoreFrame

NextStore ==
  AddRequirement \/ GetNextRequirement \/ UpdateTargetVersion \/ DeleteSourceRequirements

SpecStore == InitStore /\ [][NextStore]_vars

\* ------------------------------------------------------------- a forge cache on its own
\* A ForgeCache and the ModuleDeclarations made on it for one module, used without a resolver
\* (the way the tests of ModuleDeclaration use them). The registry lists the
\* releases of a module newest first or oldest first.
MaxDeclared == 2
CacheSlugs == {C}
CacheVersions == {1, MaxVersion}
CacheRegistries ==
  { [ab |-> AnyRange, ba |-> {}, ac |-> AnyRange, bc |-> {}, cd |-> "none", rel |-> rel,
     deprecated |-> {}, order |-> "ac", listing |-> listing] :
      rel \in {"full", "newest", "empty"}, listing \in {"descending", "ascending"} }

\* ForgeCache.getDependencies(author, name, version), the release existing
cacheDependencies(s, slug, version) == [s EXCEPT !.dependencies = @ \cup {<<slug, version>>}]

\* the requests a call has sent that took the cache from s to t
Requests(s, t) ==
  {<<"/v3/modules", slug, NoVersion>> : slug \in t.forgeModuleData \ s.forgeModuleData}
    \cup {<<"/v3/releases", key[1], key[2]>> : key \in t.dependencies \ s.dependencies}

\* the calls that have returned, the last one included
Returned == forgeCall.before \cup (IF forgeCall.returned THEN {<<forgeCall.op, forgeCall.key>>} ELSE {})

ForgeCalled(op, slug, version, next, value) ==
  /\ Becomes(next)
  /\ forgeCall' = [op |-> op, key |-> <<slug, version>>, requests |-> Requests(Cur, next),
                   returned |-> TRUE, value |-> value, before |-> Returned]

InitForge ==
  /\ forge \in CacheRegistries
  /\ \E made \in {[Blank({}) EXCEPT !.pc = "cache"]} : StartsAs(made)
  /\ sourcePuppetfile = <<>>
  /\ sourceDependents = <<>>
  /\ manifest = <<>>
  /\ ignoreList = {}
  /\ hideList = {}
  /\ twin = Blank({})
  /\ TextIdle
  /\ gitFetch = NoFetch
  /\ lookups = NoLookups
  /\ storeCall = NoCall
  /\ forgeCall = NoForgeCall

GetModuleData ==
  /\ pc = "cache"
  /\ \E slug \in CacheSlugs :
       ForgeCalled("getModuleData", slug, NoVersion, getModuleData(Cur, slug),
                   <<ForgeReleases(forge, slug), ForgeDeprecated(forge, slug)>>)

GetReleases ==
  /\ pc = "cache"
  /\ \E slug \in CacheSlugs :
       ForgeCalled("getReleases", slug, NoVersion, getReleases(Cur, slug),
                   CachedReleases(Cur, slug))

\* a release the forge does not have is answered with an error: the call throws
\* and nothing is cached
GetDependencies ==
  /\ pc = "cache"
  /\ \E slug \in CacheSlugs, version \in CacheVersions :
       IF ForgeHasRelease(forge, slug, version) \/ <<slug, version>> \in dependencies
       THEN ForgeCalled("getDependencies", slug, version, cacheDependencies(Cur, slug, version),
                        ForgeDependencies(forge, slug, version))
       ELSE /\ Becomes(Cur)
            /\ forgeCall' = [op |-> "getDependencies", key |-> <<slug, version>>,
                             requests |-> {<<"/v3/releases", slug, version>>},
                             returned |-> FALSE, value |-> <<>>, before |-> Returned]

\* new ModuleDeclaration().withForgeApiUrl(..).fromText(`mod '<slug>'`)
FromText ==
  /\ pc = "cache"
  /\ Len(heap) < MaxDeclared
  /\ \E slug \in CacheSlugs :
       \E next \in {fromText(Cur, slug)} :
         ForgeCalled("fromText", slug, NoVersion, next, <<next.heap[Len(next.heap)].version>>)

\* getNextAvailableVersion() of a declared module; shift() of an empty list
\* leaves it empty and returns undefined
GetNextAvailableVersion ==
  /\ pc = "cache"
  /\ \E module \in DOMAIN heap :
       LET slug == getSlug(Cur, module)
           list == CachedReleases(Cur, slug)
       IN IF list = <<>>
          THEN ForgeCalled("getNextAvailableVersion", slug, NoVersion, getReleases(Cur, slug),
                           <<NoVersion>>)
          ELSE ForgeCalled("getNextAvailableVersion", slug, NoVersion,
                           getNextAvailableVersion(Cur, module), <<Head(list)>>)

NextForge ==
  /\ \/ GetModuleData
     \/ GetReleases
     \/ GetDependencies
     \/ FromText
     \/ GetNextAvailableVersion
  /\ UNCHANGED <<config, twin>>
  /\ UNCHANGED textVars
  /\ UNCHANGED <<gitFetch, lookups, storeCall>>

SpecForge == InitForge /\ [][NextForge]_vars

\* ------------------------------------------------------------- reading and writing Puppetfiles
\* new PuppetFile().withDependencyIdentifier(..).withPreamble(..).fromText(input)
\* is about to read its first line
InitText ==
  /\ ResolverIdle
  /\ \E identifier \in DependencyIdentifiers, preamble \in Preambles :
       \E input \in CanonicalManifests(identifier)
                      \cup (IF preamble = <<>> THEN ShortManifests(identifier) ELSE {}) :
         /\ sourceText = input
         /\ remaining = input
         /\ parser = NewParser
         /\ puppetFile = NewPuppetFile(identifier, preamble)
         /\ emitted = <<>>
         /\ phase = "parsing"
  /\ UnitsIdle

\* fromText between two lines
Parsing == [parser |-> parser, puppetFile |-> puppetFile, thrown |-> FALSE]

\* one iteration of the for loop of fromText
ReadLine ==
  /\ phase = "parsing"
  /\ remaining # <<>>
  /\ \E read \in {readLine(Parsing, Head(remaining))} :
        /\ parser' = read.parser
        /\ puppetFile' = read.puppetFile
        /\ phase' = IF read.thrown THEN "failed" ELSE "parsing"
  /\ remaining' = Tail(remaining)
  /\ UNCHANGED <<sourceText, emitted>>
  /\ UNCHANGED resolverVars
  /\ UNCHANGED unitVars

\* the lines are read: the pending declaration is added and fromText returns
EndOfText ==
  /\ phase = "parsing"
  /\ remaining = <<>>
  /\ \E added \in {addToModules(Parsing)} :
        /\ puppetFile' = added.puppetFile
        /\ phase' = IF added.thrown THEN "failed" ELSE "parsed"
  /\ UNCHANGED <<remaining, sourceText, parser, emitted>>
  /\ UNCHANGED resolverVars
  /\ UNCHANGED unitVars

\* toText() on the PuppetFile read; it sorts dependentModules in place
ToText ==
  /\ phase = "parsed"
  /\ emitted' = Append(emitted, toText(puppetFile))
  /\ puppetFile' = [puppetFile EXCEPT !.dependentModules = sortByModuleName(@)]
  /\ phase' = "emitted"
  /\ UNCHANGED <<remaining, sourceText, parser>>
  /\ UNCHANGED resolverVars
  /\ UNCHANGED unitVars

\* the text written is read again by a new PuppetFile with the same
\* identifier and preamble, as a second run of the command does
FromEmitted ==
  /\ phase = "emitted"
  /\ Len(emitted) = 1
  /\ sourceText' = emitted[1]
  /\ remaining' = emitted[1]
  /\ parser' = NewParser
  /\ puppetFile' = NewPuppetFile(puppetFile.dependencyIdentifier, puppetFile.preamble)
  /\ phase' = "parsing"
  /\ UNCHANGED emitted
  /\ UNCHANGED resolverVars
  /\ UNCHANGED unitVars

NextText == ReadLine \/ EndOfText \/ ToText \/ FromEmitted

SpecText == InitText /\ [][NextText]_vars


\* The loop of every modelled run ends before the cap on iterations.
LoopNeverCapped == ~(pc = "resolving" /\ store # <<>> /\ steps >= MaxSteps)

\* ------------------------------------------------------------- the result
\* The slugs of the module nodes of the graph
ModuleKeys == {nodes[i].key : i \in 1..Len(nodes)} \ {PuppetfileNode}
\* The version of the module stored on the node of a slug
NodeVersion(key) == heap[getNodeAttribute(Cur, key)].version
\* What the registry, or metadata.json, declares for the module stored on a
\* node at the version it has
DeclaredDependencies(key) ==
  LET module == getNodeAttribute(Cur, key)
  IN IF ~heap[module].forgeModule THEN SeqToSet(GitMetadata(key).dependencies)
     ELSE IF heap[module].version = NoVersion THEN {}
          ELSE SeqToSet(ForgeDependencies(forge, key, heap[module].version))
\* The slugs of a list of the result Puppetfile
SlugsOf(list) == [i \in 1..Len(list) |-> heap[list[i]].slug]
Output == modules \o dependentModules
\* Every edge of the graph accepts the version of the module on its target node
EdgesSatisfied ==
  \A i \in 1..Len(edges) :
    satisfies(NodeVersion(edges[i].targetKey), edges[i].dependencyRange)

\* ------------------------------------------------------------- claims
\* C1: when resolve() returns with an empty ignore list, every dependency that
\* the registry or metadata.json declares for a module of the final graph at
\* its final version is satisfied by the final version of its target.
C1_DeclaredRangesSatisfied ==
  (pc = "done" /\ ignoreList = {}) =>
    \A key \in ModuleKeys : \A dependency \in DeclaredDependencies(key) :
      hasNode(Cur, dependency.name) =>
        satisfies(NodeVersion(dependency.name), dependency.version_requirement)

\* C2: when resolve() returns, the final graph is closed under dependencies:
\* every target declared for a module of the graph at its final version is a
\* node of the graph.
C2_GraphClosed ==
  pc = "done" =>
    \A key \in ModuleKeys : \A dependency \in DeclaredDependencies(key) :
      hasNode(Cur, dependency.name)

\* C3 as stated: when resolve() returns, whatever the ignore list, every edge
\* of the final graph is satisfied by the version of the module on its target.
C3_AllEdgesSatisfied == pc = "done" => EdgesSatisfied

\* C3: when resolve() returns, every edge of the final graph whose target is
\* not on the ignore list is satisfied by the version of the module on its
\* target node.
C3_EdgesSatisfiedUnlessIgnored ==
  pc = "done" =>
    \A i \in 1..Len(edges) :
      edges[i].targetKey \notin ignoreList =>
        satisfies(NodeVersion(edges[i].targetKey), edges[i].dependencyRange)

\* resolve() returned a graph with an unsatisfied edge to an ignored module and
\* with a module off the ignore list that is the target of two edges
C3_Witness ==
  /\ pc = "done"
  /\ ~EdgesSatisfied
  /\ \E i, j \in 1..Len(edges) :
       i # j /\ edges[i].targetKey = edges[j].targetKey
             /\ edges[i].targetKey \notin ignoreList

\* C4: when resolve() returns, every top-level module of the source Puppetfile
\* is in the top-level list of the result or has its slug on the hide list.
C4_TopLevelKept ==
  pc = "done" =>
    \A i \in 1..Len(sourcePuppetfile) :
      \/ heap[sourcePuppetfile[i]].slug \in hideList
      \/ heap[sourcePuppetfile[i]].slug \in SeqToSet(SlugsOf(modules))

C6_OutputSlugsDistinct ==
  \A i, j \in 1..Len(Output) : i # j => heap[Output[i]].slug # heap[Output[j]].slug

\* resolve() returned top-level modules and dependent modules
C6_Witness == pc = "done" /\ Len(modules) >= 2 /\ dependentModules # <<>>

\* C7: resolve() never fails with NoVersionFound for a requirement whose target
\* is on the ignore list, nor with ModuleDeprecated for a slug on it.
C7_IgnoredNeverFatal ==
  pc = "failed" =>
    /\ ~(error.kind = "NoVersionFound" /\ error.target \in ignoreList)
    /\ ~(error.kind = "ModuleDeprecated" /\ error.slug \in ignoreList)

\* the loop went on after NoVersionFound for an ignored module that is
\* deprecated as well
C7_Witness ==
  /\ lastStep = "ignored"
  /\ pc = "resolving"
  /\ \E slug \in ignoreList : ForgeDeprecated(forge, slug) /\ hasNode(Cur, slug)

\* The lists of the twin without the modules whose slug is on the hide list
Unhidden(list) == SelectSeq(list, LAMBDA module : twin.heap[module].slug \notin hideList)

\* C8: the hide list affects the dump only. The run with the hide list ends as
\* the run without it does, with the same graph and the same modules, and its
\* lists are the lists of the run without it less the hidden modules.
C8_HideListOnlyFilters ==
  /\ pc = twin.pc
  /\ error = twin.error
  /\ pc = "done" =>
       /\ nodes = twin.nodes
       /\ edges = twin.edges
       /\ heap = twin.heap
       /\ modules = Unhidden(twin.modules)
       /\ dependentModules = Unhidden(twin.dependentModules)

\* resolve() returned with a top-level module and a dependent module hidden
C8_Witness ==
  /\ pc = "done"
  /\ Len(modules) < Len(twin.modules)
  /\ Len(dependentModules) < Len(twin.dependentModules)
  /\ modules # <<>>

\* The requirement the next loop iteration takes reaches getNewVersion: it is
\* valid and neither deprecation check throws.
ReachesVersionSearch ==
  /\ pc = "resolving"
  /\ store # <<>>
  /\ RequirementIsValid(Head(store))
  /\ ~(Head(store).sourceModule # Nil /\ throwsDeprecated(Cur, Head(store).sourceModule))
  /\ ~throwsDeprecated(Cur, Head(store).targetModule)

\* No release left in the cached list of the target of that requirement
\* satisfies every in-edge the target has once the requirement is in the graph.
NoReleaseFits ==
  LET s == inserted(Cur)
      target == getSlug(s, Head(store).targetModule)
      list == CachedReleases(s, target)
  IN \A k \in 1..Len(list) :
       \E i \in 1..Len(s.edges) :
         s.edges[i].targetKey = target /\ ~satisfies(list[k], s.edges[i].dependencyRange)

\* What the loop iteration does when getNewVersion throws for the requirement
\* it took: the loop goes on if the target is ignored, else resolve() fails
\* with NoVersionFound naming the source, the target and the range.
RaisesNoVersionFound ==
  IF getSlug(Cur, Head(store).targetModule) \in ignoreList
  THEN pc' = "resolving" /\ lastStep' = "ignored"
  ELSE /\ pc' = "failed"
       /\ error' = [kind |-> "NoVersionFound", slug |-> "",
                    source |-> IF Head(store).sourceModule = Nil THEN "undefined"
                               ELSE heap[Head(store).sourceModule].slug,
                    target |-> heap[Head(store).targetModule].slug,
                    range |-> Head(store).dependencyRange]

\* C9 as stated: whenever no release left in the cached list of the target
\* satisfies every in-edge of the target, NoVersionFound is raised.
C9_NoFittingReleaseRaises ==
  [][(ReachesVersionSearch /\ NoReleaseFits) => RaisesNoVersionFound]_vars

\* C9: whenever the graph rejects the current version of the target and no
\* release left in the cached list of the target satisfies every in-edge of
\* the target, NoVersionFound is raised for the requirement being processed,
\* and resolve() fails with it unless the target is on the ignore list.
C9_SearchExhaustedRaises ==
  [][(ReachesVersionSearch /\ ~isValid(inserted(Cur), Head(store).targetModule)
        /\ NoReleaseFits) => RaisesNoVersionFound]_vars

\* resolve() failed with NoVersionFound for a requirement of a module
C9_Witness ==
  /\ pc = "failed"
  /\ error.kind = "NoVersionFound"
  /\ error.source \in Slugs
  /\ error.target \notin ignoreList

\* The slug the deprecation checks of the next loop iteration throw for: that
\* of the source module if it is deprecated and not ignored, else that of the
\* target module if it is; "" if neither check throws.
ThrowsDeprecatedFor ==
  IF Head(store).sourceModule # Nil /\ throwsDeprecated(Cur, Head(store).sourceModule)
  THEN getSlug(Cur, Head(store).sourceModule)
  ELSE IF throwsDeprecated(Cur, Head(store).targetModule)
       THEN getSlug(Cur, Head(store).targetModule)
       ELSE ""

\* C10: if the source or the target of the requirement taken is deprecated and
\* not ignored, resolve() fails with ModuleDeprecated for that module, and the
\* graph is as it was before the requirement was taken.
C10_DeprecatedFailsBeforeInsertion ==
  [][(pc = "resolving" /\ store # <<>> /\ ThrowsDeprecatedFor # "") =>
       /\ pc' = "failed"
       /\ error' = DeprecatedModuleError(ThrowsDeprecatedFor)
       /\ nodes' = nodes
       /\ edges' = edges]_vars

\* resolve() failed with ModuleDeprecated for a module a dependency led to,
\* the graph holding other modules but not that one
C10_Witness ==
  /\ pc = "failed"
  /\ error.kind = "ModuleDeprecated"
  /\ Len(nodes) >= 2
  /\ ~hasNode(Cur, error.slug)

\* The modules of a list of a result Puppetfile as slug and version
Pinned(s, list) ==
  [i \in 1..Len(list) |-> [slug |-> s.heap[list[i]].slug, version |-> s.heap[list[i]].version]]

\* C11: the dependencies section of the source Puppetfile has no influence on
\* resolve(). The run ends as the run of the Puppetfile without the section
\* does, with the same top-level and dependent modules at the same versions,
\* and the dependent modules of the result are the modules of the graph that
\* are not top-level modules of the source Puppetfile.
C11_DependentsSectionIgnored ==
  /\ pc = twin.pc
  /\ error = twin.error
  /\ pc = "done" =>
       /\ Pinned(Cur, modules) = Pinned(twin, twin.modules)
       /\ Pinned(Cur, dependentModules) = Pinned(twin, twin.dependentModules)
       /\ SeqToSet(SlugsOf(dependentModules)) =
            {key \in ModuleKeys : ~hasModule(Cur, key)}

\* resolve() returned dependent modules for a Puppetfile whose dependencies
\* section names a module the result does not hold, and one it holds at
\* another version
C11_Witness ==
  /\ pc = "done"
  /\ dependentModules # <<>>
  /\ \E i \in 1..Len(sourceDependents) :
       heap[sourceDependents[i]].slug \notin SeqToSet(SlugsOf(Output))
  /\ \E i \in 1..Len(sourceDependents), k \in 1..Len(Output) :
       /\ heap[sourceDependents[i]].slug = heap[Output[k]].slug
       /\ heap[sourceDependents[i]].version # heap[Output[k]].version

\* ------------------------------------------------------------- C12
\* The manifest of the resolver tests "wrong dependency of a module that is
\* included as a dependency": top-level test-a and test-c, both at the newest
\* version; test-a needs test-c in exactly that version or newer, the only
\* release of test-c is that version, nothing else is declared or deprecated.
WrongDependencyManifest ==
  /\ SlugsOf(sourcePuppetfile) = <<A, C>>
  /\ forge.ab = {} /\ forge.ac = {MaxVersion}
  /\ forge.rel = "newest" /\ forge.cd = "none" /\ forge.deprecated = {}

\* C12: resolving that manifest is rejected with a NoVersionFound error for
\* test-c with the range test-a declares; with test-c on the ignore list the
\* same manifest resolves successfully.
C12_WrongDependencyRejected ==
  (WrongDependencyManifest /\ pc # "resolving") =>
    IF C \in ignoreList
    THEN pc = "done"
    ELSE /\ pc = "failed"
         /\ error.kind = "NoVersionFound"
         /\ error.target = C
         /\ error.range = {MaxVersion}

\* ------------------------------------------------------------- C13
\* The graph validates the target of the requirement the next loop iteration
\* takes, at the version the target has when getNewVersion is called.
TargetIsValid == isValid(inserted(Cur), Head(store).targetModule)

\* C13: when the graph validates the target module at its current version,
\* getNewVersion returns exactly that version and changes nothing (the
\* version of the target, the cached release lists and the graph are as
\* before the call), and the loop iteration built on it leaves the version of
\* the target, its cached release list and the graph as _addToGraph left them.
C13_ValidTargetUnchanged ==
  [][(ReachesVersionSearch /\ TargetIsValid) =>
       LET before == inserted(Cur)
           target == Head(store).targetModule
           slug == getSlug(Cur, target)
           result == getNewVersion(before, Head(store))
       IN /\ result.found
          /\ result.s.heap[target].version = before.heap[target].version
          /\ result.s.releases = before.releases
          /\ result.s.nodes = before.nodes
          /\ result.s.edges = before.edges
          /\ heap'[target].version = heap[target].version
          /\ slug \in DOMAIN releases => releases'[slug] = releases[slug]
          /\ nodes' = before.nodes
          /\ edges' = before.edges
          /\ lastStep' \in {"same", "failed"}]_vars

\* getNewVersion is about to be called for a target the graph validates,
\* which has two in-edges and is not at the newest release the forge lists.
C13_Witness ==
  /\ ReachesVersionSearch
  /\ TargetIsValid
  /\ Len(inEdges(inserted(Cur), getSlug(Cur, Head(store).targetModule))) >= 2
  /\ heap[Head(store).targetModule].version \in Versions \ {MaxVersion}

\* ------------------------------------------------------------- C14
\* The release satisfies every in-edge the target of the requirement taken
\* next has once the requirement is in the graph.
Fits(version) ==
  LET s == inserted(Cur)
  IN \A i \in 1..Len(s.edges) :
       s.edges[i].targetKey = getSlug(s, Head(store).targetModule) =>
         satisfies(version, s.edges[i].dependencyRange)

\* The cached release list of that target when getNewVersion is called, and
\* the position of the first release in it that fits.
ListSearched == CachedReleases(inserted(Cur), getSlug(Cur, Head(store).targetModule))
FirstFitting ==
  CHOOSE k \in 1..Len(ListSearched) :
    Fits(ListSearched[k]) /\ \A j \in 1..(k - 1) : ~Fits(ListSearched[j])

\* C14: when the graph rejects the current version of the target and some
\* release in the cached list of the target satisfies every in-edge of the
\* target, getNewVersion returns the first such release in list order, the
\* target has that version, the releases before it are gone from the cached
\* list and the chosen release is its head; the loop iteration leaves both so.
C14_FirstFittingReleaseChosen ==
  [][(ReachesVersionSearch /\ ~TargetIsValid /\ ~NoReleaseFits) =>
       LET target == Head(store).targetModule
           slug == getSlug(Cur, target)
           result == getNewVersion(inserted(Cur), Head(store))
           kept == SubSeq(ListSearched, FirstFitting, Len(ListSearched))
       IN /\ result.found
          /\ result.s.heap[target].version = ListSearched[FirstFitting]
          /\ result.s.releases[slug] = kept
          /\ Head(result.s.releases[slug]) = ListSearched[FirstFitting]
          /\ heap'[target].version = ListSearched[FirstFitting]
          /\ releases'[slug] = kept
          /\ lastStep' = "changed"]_vars

\* getNewVersion is about to search for a target the graph rejects, and the
\* first release of the cached list that fits is not the head of the list.
C14_Witness ==
  /\ ReachesVersionSearch
  /\ ~TargetIsValid
  /\ ~NoReleaseFits
  /\ FirstFitting > 1
  /\ Len(inEdges(inserted(Cur), getSlug(Cur, Head(store).targetModule))) >= 2

KeptOnChange ==
  SelectSeq(Tail(store), LAMBDA requirement :
    /\ requirement.sourceModule # Nil
    /\ heap[requirement.sourceModule].slug # heap[Head(store).targetModule].slug)

\* What a loop iteration leaves queued of the requirements that were queued
\* behind the one it took.
StillQueued == IF lastStep' = "changed" THEN KeptOnChange ELSE Tail(store)

\* C16: the store is a FIFO queue. Every loop iteration takes the oldest
\* requirement queued; the requirements behind it stay queued in their order
\* (but for those the version-change branch deletes) and what the iteration
\* adds is queued behind them: the dependencies of the target of the
\* requirement taken, or the requirements on that target again; resolve()
\* returns only when the store is empty.
C16_StoreIsFifo ==
  [][/\ (pc = "resolving" /\ store # <<>>) =>
          /\ steps' = steps + 1
          /\ pc' = "resolving" =>
               /\ Len(store') >= Len(StillQueued)
               /\ SubSeq(store', 1, Len(StillQueued)) = StillQueued
               /\ \A i \in (Len(StillQueued) + 1)..Len(store') :
                    IF lastStep' = "changed"
                    THEN store'[i].targetModule = Head(store).targetModule
                    ELSE store'[i].sourceModule = Head(store).targetModule
     /\ pc' = "done" => store = <<>>]_vars

\* a loop iteration is about to take the head of a store of three
\* requirements or more and to queue a new one behind those that stay queued
C16_Witness ==
  /\ pc = "resolving"
  /\ Len(store) >= 3
  /\ LoopStep(Cur).pc = "resolving"
  /\ Len(LoopStep(Cur).store) >= Len(store)

\* ------------------------------------------------------------- C17
\* C17: for a manifest that already has the canonical form (read without
\* preamble, with the identifier its sentinel line shows), the text written
\* from the manifest read is the input.
C17_CanonicalRoundTrip ==
  (/\ phase = "emitted"
   /\ Len(emitted) = 1
   /\ puppetFile.preamble = <<>>
   /\ sourceText \in CanonicalManifests(puppetFile.dependencyIdentifier)) =>
    emitted[1] = sourceText

\* ------------------------------------------------------------- C18
\* C18: writing is idempotent: the text written from what was read from a
\* written text is that text, whatever the preamble and the identifier are.
C18_EmissionIdempotent ==
  (phase = "emitted" /\ Len(emitted) = 2) => emitted[2] = emitted[1]

\* ------------------------------------------------------------- C19
\* The lines of the text being read, by what the claims call them: a sentinel
\* line contains the configured identifier, an entry line starts a mod entry.
IsSentinel(line) == includes(line, puppetFile.dependencyIdentifier)
IsEntryLine(line) == startsWithMod(line) /\ ~IsSentinel(line)
FirstSentinel ==
  IF \E i \in 1..Len(sourceText) : IsSentinel(sourceText[i])
  THEN CHOOSE i \in 1..Len(sourceText) :
         IsSentinel(sourceText[i]) /\ \A j \in 1..(i - 1) : ~IsSentinel(sourceText[j])
  ELSE Len(sourceText) + 1

\* the positions of the entry lines between two positions, in text order
EntryLines(from, to) ==
  SelectSeq([i \in 1..Len(sourceText) |-> i],
            LAMBDA i : from <= i /\ i <= to /\ IsEntryLine(sourceText[i]))

\* the list holds the entries that start on these lines, in this order
HoldsEntries(list, lines) ==
  /\ Len(list) = Len(lines)
  /\ \A k \in 1..Len(list) :
       /\ list[k].author = moduleRegExp(sourceText[lines[k]]).author
       /\ list[k].name = moduleRegExp(sourceText[lines[k]]).name

\* C19: the entries that start before the first line containing the
\* configured identifier make the top-level list and those after it the
\* dependent-modules list, each in declaration order; the parser is in the
\* dependencies exactly when it has read such a line, and from then on it
\* stays there and leaves the top-level list alone.
C19_SentinelSwitchesLists ==
  /\ [](phase = "parsed" =>
          /\ HoldsEntries(puppetFile.modules, EntryLines(1, FirstSentinel - 1))
          /\ HoldsEntries(puppetFile.dependentModules,
                          EntryLines(FirstSentinel + 1, Len(sourceText))))
  /\ [](phase = "parsing" =>
          (parser.inDependencies <=> FirstSentinel <= Len(sourceText) - Len(remaining)))
  /\ [][(phase = "parsing" /\ parser.inDependencies) =>
          (parser'.inDependencies /\ puppetFile'.modules = puppetFile.modules)]_vars

\* a text with another identifier than the default is read in which several
\* entries stand on either side of the sentinel
C19_Witness ==
  /\ phase = "parsed"
  /\ puppetFile.dependencyIdentifier = OtherDependencyIdentifier
  /\ Len(puppetFile.modules) >= 2
  /\ Len(puppetFile.dependentModules) >= 2

\* ------------------------------------------------------------- C20
\* The last line above a position that ends a comment block (a blank line, a
\* line that starts an entry, a sentinel), 0 if there is none, and the
\* comments of the comment lines between it and the position.
BlockStart(i) ==
  LET ends == {j \in 1..(i - 1) : \/ isBlank(sourceText[j])
                                  \/ startsWithMod(sourceText[j])
                                  \/ IsSentinel(sourceText[j])}
  IN IF ends = {} THEN 0 ELSE CHOOSE j \in ends : \A other \in ends : other <= j
CommentsAbove(i) ==
  LET lines == SelectSeq([l \in 1..Len(sourceText) |-> l],
                         LAMBDA l : BlockStart(i) < l /\ l < i /\ isComment(sourceText[l]))
  IN [k \in 1..Len(lines) |-> commentOf(sourceText[lines[k]])]

\* C20: every entry read carries exactly the comment lines that stand above
\* its first line since the last blank line, entry line or sentinel, in
\* order; so a block cut off by a blank line is attached to no entry, and no
\* block to an earlier entry or to two entries.
C20_CommentsAttached ==
  phase = "parsed" =>
    LET lines == EntryLines(1, Len(sourceText))
        entries == puppetFile.modules \o puppetFile.dependentModules
    IN /\ Len(entries) = Len(lines)
       /\ \A k \in 1..Len(entries) : entries[k].comments = CommentsAbove(lines[k])

\* a text is read in which one entry has a block of two comment lines, another
\* entry has none, and a comment line is cut off from the entries by a blank
\* line
C20_Witness ==
  /\ phase = "parsed"
  /\ \E k \in 1..Len(puppetFile.modules) : Len(puppetFile.modules[k].comments) = 2
  /\ \E k \in 1..Len(puppetFile.modules) : puppetFile.modules[k].comments = <<>>
  /\ \E l \in 1..Len(sourceText) :
       /\ isComment(sourceText[l])
       /\ ~IsSentinel(sourceText[l])
       /\ \A k \in 1..Len(EntryLines(1, Len(sourceText))) :
            LET i == EntryLines(1, Len(sourceText))[k]
            IN ~(BlockStart(i) < l /\ l < i)

\* ------------------------------------------------------------- C21
\* C21: a later resolve() in the same process is not influenced by what an
\* earlier one left in the graph and the forge cache: the second run of a
\* Puppetfile ends as its first run did, with the same error or with the
\* same modules at the same versions in both lists.
C21_LaterRunUnaffected ==
  (~FirstRun /\ pc # "resolving") =>
    /\ pc = twin.pc
    /\ error = twin.error
    /\ pc = "done" =>
         /\ Pinned(Cur, modules) = Pinned(twin, twin.modules)
         /\ Pinned(Cur, dependentModules) = Pinned(twin, twin.dependentModules)

\* ------------------------------------------------------------- C22
\* C22: when fetchGitMetadata has returned or thrown, every temporary
\* directory it acquired has been released.
C22_TmpDirsReleased ==
  gitFetch.pc \in {"returned", "thrown"} => gitFetch.tmpDirs = {}

\* ------------------------------------------------------------- C23
\* both callers have been given an array after lookups of theirs were in
\* flight at the same time
BothAnswered ==
  /\ lookups.raced
  /\ \A c \in Callers : lookups.callers[c].held # Nil /\ lookups.callers[c].pc # "inflight"

\* C23: after two lookups that were in flight at the same time the cache
\* holds one array for the slug and both callers hold that array, so that
\* a release one caller has taken from it is in the cached array no more.
C23_RacingLookupsConverge ==
  BothAnswered =>
    /\ \A c \in Callers : lookups.callers[c].held = lookups.cache
    /\ \A c \in Callers : \A i \in 1..Len(lookups.callers[c].taken) :
         lookups.callers[c].taken[i] \notin SeqToSet(lookups.lists[lookups.cache])

\* ------------------------------------------------------------- C24
\* list is what is left of full after releases were taken from its head
IsSuffix(list, full) ==
  \E k \in 0..Len(full) : list = SubSeq(full, k + 1, Len(full))

\* C24: the cached release list of a slug is always a contiguous suffix of
\* the list the registry gave for the slug, and a loop iteration leaves of
\* every cached list a suffix of what it was, the release it selected at its
\* head.
C24_CachedReleasesAreSuffix ==
  /\ [](\A slug \in DOMAIN releases : IsSuffix(releases[slug], ForgeReleases(forge, slug)))
  /\ [][\A slug \in DOMAIN releases :
          /\ slug \in DOMAIN releases'
          /\ IsSuffix(releases'[slug], releases[slug])]_vars
  /\ [][lastStep' = "changed" =>
          LET target == Head(store).targetModule
          IN /\ releases'[heap[target].slug] # <<>>
             /\ Head(releases'[heap[target].slug]) = heap'[target].version]_vars

\* a search took releases from the head of a fully published module's list,
\* put the one it selected back and left more than that one in the list
C24_Witness ==
  /\ lastStep = "changed"
  /\ \E slug \in DOMAIN releases :
       /\ Len(releases[slug]) >= 1
       /\ Len(releases[slug]) < Len(ForgeReleases(forge, slug))

\* ---- the version-changing step
\* A step of the loop that selected another version for its target
ChangedStep == pc = "resolving" /\ store # <<>> /\ lastStep' = "changed" /\ steps' = steps + 1

\* The in-edges of the target of the requirement taken, at the moment the
\* replacement requirements are built: the requirement is in the graph and the
\* sole dependencies of the target are dropped.
InEdgesAtChange ==
  LET inGraph == inserted(Cur)
      slug == getSlug(inGraph, Head(store).targetModule)
      outTargets == [i \in 1..Len(outEdges(inGraph, slug)) |-> outEdges(inGraph, slug)[i].targetKey]
  IN inEdges(dropSoleDependencies(inGraph, slug, outTargets), slug)

\* C25: when the version selected for a target differs from its old version,
\* the store ends with one replacement requirement per in-edge of the target,
\* in the order of the edges, each with the source kind and the source module
\* of its edge, the target in its new version and the range of the edge.
C25_ReplacementsKeepSource ==
  [][ChangedStep =>
       LET target == Head(store).targetModule
           count == Len(InEdgesAtChange)
       IN /\ heap'[target].version # heap[target].version
          /\ Len(store') >= count
          /\ \A i \in 1..count :
               store'[Len(store') - count + i] =
                 Requirement(InEdgesAtChange[i].source, InEdgesAtChange[i].sourceModule,
                             target, InEdgesAtChange[i].dependencyRange)]_vars


\* C26: every requirement in the store has a target module and a range, and a
\* source module whenever its source is Dependency; taking a requirement from
\* the store never raises the error of a missing field.
C26_StoreWellFormed ==
  /\ \A i \in 1..Len(store) :
       /\ store[i].targetModule \in DOMAIN heap
       /\ store[i].dependencyRange \subseteq Versions
       /\ store[i].source = Dependency => store[i].sourceModule \in DOMAIN heap
  /\ error # StateInvariantError

\* The graph the version-changing step starts from: the requirement taken is
\* in the graph
GraphAtChange == inserted(Cur)

\* The out-neighbours of the target of the requirement taken
OutNeighbours ==
  LET slug == heap[Head(store).targetModule].slug
  IN {GraphAtChange.edges[i].targetKey :
        i \in {j \in 1..Len(GraphAtChange.edges) : GraphAtChange.edges[j].sourceKey = slug}}

\* The node has an in-edge from a source other than the target
HasOtherSource(key) ==
  \E i \in 1..Len(GraphAtChange.edges) :
    /\ GraphAtChange.edges[i].targetKey = key
    /\ GraphAtChange.edges[i].sourceKey # heap[Head(store).targetModule].slug

\* C30: the version-changing step for target T removes each out-neighbour of T
\* that has no in-edge from a source other than T, keeps each out-neighbour
\* that has one, removes T, and removes no other node.
C30_OnlySoleDependenciesDropped ==
  [][ChangedStep =>
       LET slug == heap[Head(store).targetModule].slug
           dropped == {key \in OutNeighbours : ~HasOtherSource(key)} \cup {slug}
       IN nodes' = SelectSeq(GraphAtChange.nodes, LAMBDA n : n.key \notin dropped)]_vars

\* The out-neighbours of the target in the order of its out-edges
OutOrder ==
  LET out == outEdges(GraphAtChange, heap[Head(store).targetModule].slug)
  IN [i \in 1..Len(out) |-> out[i].targetKey]

\* The out-neighbours removed among the first k visited: a neighbour is removed
\* when each of its in-edges comes from the target or from a neighbour removed
\* before it.
RECURSIVE RemovedUpTo(_)
RemovedUpTo(k) ==
  IF k = 0 THEN {}
  ELSE LET before == RemovedUpTo(k - 1)
           slug == heap[Head(store).targetModule].slug
           held == \E i \in 1..Len(GraphAtChange.edges) :
                     /\ GraphAtChange.edges[i].targetKey = OutOrder[k]
                     /\ GraphAtChange.edges[i].sourceKey # slug
                     /\ GraphAtChange.edges[i].sourceKey \notin before
       IN IF held THEN before ELSE before \cup {OutOrder[k]}

\* C30 (amended): the version-changing step for target T visits the
\* out-neighbours of T in the order of T's out-edges and removes a neighbour
\* when no in-edge of it that is still in the graph comes from a source other
\* than T: the in-edges from neighbours removed earlier in the step no longer
\* count. Every other out-neighbour is kept, T is removed, no other node is.
C30_SoleDependenciesDroppedInOrder ==
  [][ChangedStep =>
       LET dropped == RemovedUpTo(Len(OutOrder)) \cup {heap[Head(store).targetModule].slug}
       IN nodes' = SelectSeq(GraphAtChange.nodes, LAMBDA n : n.key \notin dropped)]_vars

\* test-a has changed its version: test-b, which the Puppetfile requires as
\* well, is still a node; test-c, whose dependencies had been read when it
\* was a node, is gone with test-a.
C30_Witness ==
  /\ lastStep = "changed"
  /\ hasNode(Cur, B) /\ ~hasNode(Cur, A) /\ ~hasNode(Cur, C)
  /\ \E version \in Versions : <<C, version>> \in dependencies
  /\ \E i \in 1..Len(store) :
       heap[store[i].targetModule].slug = A /\ store[i].sourceModule = Nil
  /\ \E i \in 1..Len(manifest) : manifest[i].slug = B

\* ---- the same-version step
\* A step of the loop that kept the version of its target
SameStep == pc = "resolving" /\ store # <<>> /\ lastStep' = "same" /\ steps' = steps + 1

\* What the registry, or metadata.json, declares for the target of the
\* requirement taken, in the order declared
DiscoveredDependencies ==
  LET target == Head(store).targetModule
      slug == heap[target].slug
      version == IF heap'[target].version # NoVersion THEN heap'[target].version
                 ELSE Head(releases'[slug])
  IN IF heap[target].forgeModule THEN ForgeDependencies(forge, slug, version)
     ELSE GitMetadata(slug).dependencies

\* The slug is a node of the graph after the step and every in-edge of the
\* node accepts the version of the module stored on it
ExistingAccepted(slug) ==
  /\ \E n \in 1..Len(nodes') : nodes'[n].key = slug
  /\ \A n \in 1..Len(nodes'), e \in 1..Len(edges') :
       (nodes'[n].key = slug /\ edges'[e].targetKey = slug) =>
         \/ heap'[nodes'[n].module].version = NoVersion
         \/ satisfies(heap'[nodes'[n].module].version, edges'[e].dependencyRange)

\* The requirements a step appended to the store
Appended == SubSeq(store', Len(store), Len(store'))

\* C29: in the same-version step a discovered dependency is not queued exactly
\* when its target slug is a node of the graph and every in-edge of that node
\* is satisfied by the version of the module stored on the node; for every
\* other dependency a requirement is appended to the store, in the order
\* discovered.
C29_SkippedIffExistingValid ==
  [][SameStep =>
       LET expected == SelectSeq(DiscoveredDependencies,
                                 LAMBDA dependency : ~ExistingAccepted(dependency.name))
       IN /\ Len(Appended) = Len(expected)
          /\ \A i \in 1..Len(expected) :
               /\ Appended[i].source = Dependency
               /\ Appended[i].sourceModule = Head(store).targetModule
               /\ heap'[Appended[i].targetModule].slug = expected[i].name
               /\ Appended[i].dependencyRange = expected[i].version_requirement]_vars

\* ---- the store on its own
\* C27: deleteSourceRequirements(slug) removes exactly the queued requirements
\* whose source module has that slug; every other requirement, those from the
\* Puppetfile (which have no source module) included, stays queued in its
\* original relative order.
C27_OnlySourceRequirementsDeleted ==
  [][storeCall'.op = "deleteSourceRequirements" =>
       /\ store' = SelectSeq(store, LAMBDA value :
                     ~(value.sourceModule # Nil
                       /\ heap[value.sourceModule].slug = storeCall'.slug))
       /\ heap' = heap]_vars

\* C28: updateTargetVersion(slug, v) sets the target version to v for every
\* queued requirement whose target slug is slug and changes nothing else: the
\* queue keeps its length and order, the targets of the other slugs keep their
\* versions, and no module that is not such a target is touched.
C28_UpdateTargetVersionFrame ==
  [][storeCall'.op = "updateTargetVersion" =>
       LET Targets == {store[i].targetModule : i \in 1..Len(store)}
       IN /\ store' = store
          /\ DOMAIN heap' = DOMAIN heap
          /\ \A m \in DOMAIN heap :
               IF m \in Targets /\ heap[m].slug = storeCall'.slug
               THEN heap'[m] = [heap[m] EXCEPT !.version = storeCall'.version]
               ELSE heap'[m] = heap[m]]_vars

\* the version 2, which no module of the store starts with, has been written
\* to a queued target while a queued target of another slug kept its version
C28_Witness ==
  /\ storeCall.op = "updateTargetVersion"
  /\ storeCall.version = 2
  /\ \E i, j \in 1..Len(store) :
       /\ heap[store[i].targetModule].slug = storeCall.slug
       /\ heap[store[i].targetModule].version = 2
       /\ heap[store[j].targetModule].slug # storeCall.slug
       /\ heap[store[j].targetModule].version # 2

\* ---- the graph
\* The keys of the nodes of a graph
NodeKeys(s) == {s.nodes[i].key : i \in 1..Len(s.nodes)}

\* The edge the requirement taken next stands for is in the graph already
EdgeKnown ==
  hasEdge(Cur, SourceKey(Cur, Head(store)), getSlug(Cur, Head(store).targetModule))

\* C31: the graph never holds two edges with the same identity (source key,
\* target key) and every edge joins two nodes of the graph; _addToGraph has
\* both nodes in the graph when it adds an edge, and for a requirement whose
\* edge identity exists it leaves the edges, the existing one with its range
\* and modules included, as they are.
C31_OneEdgePerIdentity ==
  /\ [](/\ \A i, j \in 1..Len(edges) :
             (edges[i].sourceKey = edges[j].sourceKey
              /\ edges[i].targetKey = edges[j].targetKey) => i = j
        /\ \A i \in 1..Len(edges) :
             {edges[i].sourceKey, edges[i].targetKey} \subseteq NodeKeys(Cur))
  /\ [][ReachesVersionSearch =>
          LET requirement == Head(store)
              before == inserted(Cur)
              sourceKey == SourceKey(Cur, requirement)
              target == getSlug(Cur, requirement.targetModule)
          IN /\ {sourceKey, target} \subseteq NodeKeys(before)
             /\ EdgeKnown => before.edges = edges
             /\ ~EdgeKnown =>
                  /\ Len(before.edges) = Len(edges) + 1
                  /\ SubSeq(before.edges, 1, Len(edges)) = edges
                  /\ before.edges[Len(before.edges)].sourceKey = sourceKey
                  /\ before.edges[Len(before.edges)].targetKey = target
                  /\ before.edges[Len(before.edges)].dependencyRange = requirement.dependencyRange
             /\ \A i \in 1..Len(edges') : \E j \in 1..Len(before.edges) : edges'[i] = before.edges[j]]_vars

\* _addToGraph is about to be called with a requirement whose edge is in the
\* graph, placed there for another target module object
C31_Witness ==
  /\ ReachesVersionSearch
  /\ EdgeKnown
  /\ \E i \in 1..Len(edges) :
       /\ edges[i].sourceKey = SourceKey(Cur, Head(store))
       /\ edges[i].targetKey = getSlug(Cur, Head(store).targetModule)
       /\ edges[i].targetModule # Head(store).targetModule

\* ---- the dump
\* The node has an in-edge that came from the Puppetfile
FromPuppetfile(key) ==
  \E i \in 1..Len(edges) : edges[i].targetKey = key /\ edges[i].source = Puppetfile

\* The nodes the dump emits: all but the puppetfile node and the hidden slugs
Emitted == SelectSeq(nodes, LAMBDA n : n.key # PuppetfileNode /\ n.key \notin hideList)

\* The modules stored on a list of nodes
ModulesOn(list) == [i \in 1..Len(list) |-> list[i].module]

\* C32: when resolve() has returned, every node of the graph but the
\* puppetfile node and the hidden slugs is in the result, in node order: in
\* the top-level list iff its slug is a top-level module of the source
\* Puppetfile or the node has an in-edge whose source is the Puppetfile, in
\* the list of dependent modules otherwise.
C32_NodesDumpedByOrigin ==
  pc = "done" =>
    /\ modules =
         ModulesOn(SelectSeq(Emitted, LAMBDA n : hasModule(Cur, n.key) \/ FromPuppetfile(n.key)))
    /\ dependentModules =
         ModulesOn(SelectSeq(Emitted, LAMBDA n : ~(hasModule(Cur, n.key) \/ FromPuppetfile(n.key))))

\* resolve() returned both lists and emitted as top-level a module of the
\* source Puppetfile whose node has no in-edge from the Puppetfile
C32_Witness ==
  /\ pc = "done"
  /\ modules # <<>> /\ dependentModules # <<>>
  /\ \E i \in 1..Len(modules) : ~FromPuppetfile(heap[modules[i]].slug)

\* ---- isValid
\* The ranges of the in-edges of the node of a slug
InRanges(slug) ==
  {edges[i].dependencyRange : i \in {j \in 1..Len(edges) : edges[j].targetKey = slug}}

\* C33: for a module m whose slug is a node, DependencyGraph.isValid(m) is
\* true iff m has no version or the version of m satisfies the range of every
\* in-edge of the node. The answer is that of any version put on the module:
\* it depends on the version passed in and on those ranges only; the call
\* returns a truth value and modifies neither the graph nor the module.
C33_IsValidByRanges ==
  \A m \in DOMAIN heap :
    heap[m].slug \in NodeKeys(Cur) =>
      \A version \in Versions \cup {NoVersion} :
        isValid([Cur EXCEPT !.heap[m].version = version], m)
          <=> (version = NoVersion \/ \A range \in InRanges(heap[m].slug) : version \in range)

\* the graph refuses a module that one in-edge of its node accepts and another
\* does not, and accepts a module without version whose node has an in-edge
C33_Witness ==
  /\ \E m \in DOMAIN heap :
       /\ ~isValid(Cur, m)
       /\ \E range \in InRanges(heap[m].slug) : heap[m].version \in range
  /\ \E m \in DOMAIN heap :
       /\ heap[m].version = NoVersion
       /\ InRanges(heap[m].slug) # {}
       /\ isValid(Cur, m)

\* the object a call of fromText has made
Declared == heap'[Len(heap')]

Lookups == {"getModuleData", "getReleases", "getDependencies"}

\* C36: once getModuleData, getReleases or getDependencies has returned for a
\* key, every later call for that key returns, sends no request and leaves the
\* cache as it is; getReleases returns the list the cache holds, also when it
\* has been trimmed to empty, and sends no request either once getModuleData
\* has returned for the module.
C36_LookupsMemoized ==
  [][forgeCall'.op \in Lookups =>
       /\ <<forgeCall'.op, forgeCall'.key>> \in forgeCall'.before =>
            /\ forgeCall'.returned
            /\ forgeCall'.requests = {}
            /\ <<releases', forgeModuleData', dependencies'>>
                 = <<releases, forgeModuleData, dependencies>>
            /\ forgeCall'.op = "getReleases" => forgeCall'.value = releases[forgeCall'.key[1]]
       /\ (forgeCall'.op = "getReleases" /\ <<"getModuleData", forgeCall'.key>> \in forgeCall'.before)
            => forgeCall'.requests = {}]_vars

\* getReleases was called again for a module whose releases had all been
\* taken from the cached list, and has returned the empty list without a request
C36_Witness ==
  /\ forgeCall.op = "getReleases"
  /\ <<"getReleases", forgeCall.key>> \in forgeCall.before
  /\ Published(forge, forgeCall.key[1]) # <<>>
  /\ releases[forgeCall.key[1]] = <<>>
  /\ forgeCall.value = <<>>
  /\ forgeCall.requests = {}
  /\ \E version \in CacheVersions : <<"getDependencies", <<forgeCall.key[1], version>>>> \in forgeCall.before

\* C37: when resolve() has returned, every forge module that the input
\* Puppetfile lists with a version and that is in the result has that version
\* there.
C37_PinnedVersionsKept ==
  pc = "done" =>
    \A i \in 1..Len(manifest) : \A m \in SeqToSet(Output) :
      (~manifest[i].git /\ manifest[i].version # NoVersion /\ heap[m].slug = manifest[i].slug)
        => heap[m].version = manifest[i].version

\* fromText reads the next line of its text
LineRead == phase = "parsing" /\ remaining # <<>> /\ remaining' = Tail(remaining)

\* the line starts with the word forge
startsWithForge(line) == line # <<>> /\ Head(line) = "forge"

\* C35: a line that starts with forge sets the forge endpoint whatever the
\* state of the parser and leaves the pending declaration as it is; a line
\* that is appended to the pending declaration starts with none of mod, the
\* sentinel or forge.
C35_ForgeLineNeverContinuation ==
  [][LineRead =>
       LET line == Head(remaining)
       IN /\ (startsWithForge(line) /\ forgeOf(line) # <<>>)
               => /\ puppetFile'.forge = forgeOf(line)
                  /\ parser'.currentDeclaration = parser.currentDeclaration
          /\ (line # <<>> /\ parser.inDeclaration /\ parser'.inDeclaration
                /\ parser'.currentDeclaration = parser.currentDeclaration \o line)
               => ~(startsWithMod(line) \/ startsWithForge(line)
                     \/ SubSeq(line, 1, Len(puppetFile.dependencyIdentifier))
                          = puppetFile.dependencyIdentifier)]_vars

\* the nodes that edges lead to from a set of nodes in at most n steps
RECURSIVE ReachedFrom(_, _)
ReachedFrom(keys, n) ==
  IF n = 0 THEN keys
  ELSE ReachedFrom(keys \cup {edges[i].targetKey : i \in {j \in 1..Len(edges) : edges[j].sourceKey \in keys}},
                   n - 1)

\* C39: when resolve() has returned, every node of the graph is reached from
\* the puppetfile node along edges.
C39_EveryNodeReachable ==
  pc = "done" => NodeKeys(Cur) \subseteq ReachedFrom({PuppetfileNode}, Len(nodes))

\* C38: resolve() ends: it returns (the store has drained and the graph is
\* dumped) or it throws; before that the loop has taken fewer iterations than
\* the cap of the model.
C38_ResolveTerminates ==
  /\ <>(pc \in {"done", "failed"})
  /\ [](pc = "resolving" /\ store # <<>> => steps < MaxSteps)

\* resolve() has returned after iterations that changed versions and re-queued
\* requirements on a registry with a dependency cycle
C38_Witness ==
  /\ pc = "done"
  /\ forge.ab # {}
  /\ forge.ba # {}
  /\ steps >= 8
  /\ \E slug \in DOMAIN releases : Len(releases[slug]) < Len(ForgeReleases(forge, slug))
====
